---- MODULE Spec2Model ----
(***************************************************************************)
(* Model of the streamload client: the endpoint pool and its selector      *)
(* (getCurrentFEURL / nextFE), the failover loop doRequest, and the six    *)
(* protocol operations with their manual handling of the 307 redirect.     *)
(* An HTTP call in flight is a state of its own, and nextFE is two steps    *)
(* under the write lock, so the failovers of concurrent operations         *)
(* interleave with every statement of the operation that is followed.      *)
(***************************************************************************)
EXTENDS Integers, Sequences, FiniteSets, TLC

(* ------------------------------ bounds --------------------------------- *)
MaxFEs == 2        \* largest endpoint pool handed to NewClientWithFEs
MaxOps == 2        \* operations the observed caller invokes, one after the other
MaxOtherAdvances == 1  \* failed attempts of the other goroutines' operations

(* --------------------------- program constants ------------------------- *)
StatusOK == 200
StatusTemporaryRedirect == 307
StatusInternalServerError == 500

CompressionNone == ""
CompressionGZIP == "GZIP"
CompressionZSTD == "ZSTD"

\* Main is the goroutine whose operations are followed statement by
\* statement.  Others stands for all the other goroutines that use the same
\* client: the only state they share with Main is the endpoint index and its
\* lock, so they are represented by what their operations do to it; each
\* failed attempt of one of their operations calls nextFE.
Main == "main"
Others == "others"
NoHolder == "none"
AllCallers == {Main, Others}
BodyOps == {"Load", "LoadTransaction"}
ControlOps == {"BeginTransaction", "PrepareTransaction",
               "CommitTransaction", "RollbackTransaction"}
Ops == BodyOps \cup ControlOps

(* ------------------------------ values --------------------------------- *)
FE(k) == [Host |-> k, Port |-> "8030"]
Pool(n) == [k \in 1..n |-> FE(k)]

NoErr == [kind |-> "nil", attempt |-> 0, fe |-> 0]
NoURL == [scheme |-> "", host |-> <<>>, path |-> <<>>]
NoHeader == [x \in {} |-> ""]
NoReq == [method |-> "", url |-> NoURL, header |-> NoHeader, headers |-> NoHeader, auth |-> "",
          body |-> <<>>]
NilResp == [isNil |-> TRUE, Status |-> "", Message |-> "", NumberLoadedRows |-> 0,
            TxnId |-> "0"]
NoResult == [resp |-> NilResp, err |-> NoErr, set |-> FALSE]
\* a column list ("a,b,c") is the sequence of its names; the empty string is
\* the empty list
NoColumns == <<>>
NoOpts == [Format |-> "", Compression |-> "", Columns |-> NoColumns, Label |-> "",
           StripOuterArray |-> FALSE, ColumnSeparator |-> ""]
\* the arguments of a call: those an operation does not have stay empty
NoStructs == [kind |-> "", ptr |-> FALSE, elem |-> "", elemPtr |-> FALSE, rows |-> <<>>]
NoArgs == [table |-> "", label |-> "", data |-> <<>>, opts |-> NoOpts, structs |-> NoStructs,
           via |-> ""]

\* the input streams a caller may hand to Load / LoadTransaction (one byte;
\* a codec frames it, so a compressed payload has two)
Inputs == {<<"r">>}
\* how many bytes of the body the transport may have read when a call ends
ReadLens == {0, 1, 2}
Compressions == {CompressionNone, CompressionGZIP}

\* JSON documents a server may answer with (a function from field to value)
JSONBodies ==
    { [Status |-> "Success", NumberLoadedRows |-> 5],
      [Status |-> "OK", Message |-> "ok"],
      [Status |-> "Fail", Message |-> "label not found", NumberLoadedRows |-> 3],
      [Message |-> "no status"] }
Bodies == {[valid |-> FALSE, doc |-> <<>>]}
            \cup {[valid |-> TRUE, doc |-> d] : d \in JSONBodies}
\* the worker a coordinator redirects to (host 0; the coordinators are hosts 1..N)
WorkerURL == [scheme |-> "http", host |-> <<0, "8040">>, path |-> <<"worker">>]
\* responses of a server: status line, Location header, body, and whether
\* reading the body from the connection fails
Responses ==
    [status : {StatusOK}, location : {NoURL}, body : Bodies, readErr : {FALSE}]
    \cup [status : {StatusOK}, location : {NoURL},
          body : {[valid |-> TRUE, doc |-> [Status |-> "Success", NumberLoadedRows |-> 5]]},
          readErr : {TRUE}]
    \cup [status : {StatusInternalServerError}, location : {NoURL},
          body : {[valid |-> TRUE, doc |-> [Status |-> "Fail", Message |-> "label not found",
                                            NumberLoadedRows |-> 3]],
                  [valid |-> TRUE, doc |-> [Status |-> "Success", NumberLoadedRows |-> 5]],
                  [valid |-> FALSE, doc |-> <<>>]},
          readErr : {FALSE}]
    \cup [status : {StatusTemporaryRedirect}, location : {NoURL, WorkerURL},
          body : {[valid |-> FALSE, doc |-> <<>>]}, readErr : {FALSE}]
NoResp == [status |-> 0, location |-> NoURL, body |-> [valid |-> FALSE, doc |-> <<>>],
           readErr |-> FALSE]

VARIABLES
    fes,             \* Client.fes
    defaultHeader,   \* Client.defaultHeader
    currentFEIndex,  \* Client.currentFEIndex (0-based, as in the code)
    muHolder,        \* Client.mu: the caller holding the write lock, or NoHolder
    callers,         \* the goroutines using the client
    pc,              \* position of each caller
    op,              \* operation each caller is executing
    opsLeft,         \* operations each caller may still invoke
    req,             \* request template handed to doRequest
    dataBuf,         \* buffered payload of the operation
    bodyPos,         \* bytes already read from the request body reader
    i,               \* doRequest: loop counter
    feIdx,           \* doRequest: index read by getCurrentFEURL in this attempt
    lastErr,         \* doRequest: lastErr
    tmpIdx,          \* nextFE: value of currentFEIndex loaded under the lock
    attempted,       \* history: endpoints (indexes) attempted by this doRequest, in order
    redirectReq,     \* request sent to the Location URL, NoReq if none
    nRedirectSent,   \* history: redirect requests sent by this operation
    resp,            \* the response the operation holds (NoResp: none yet)
    result,          \* what the operation returns
    nextFECount,     \* history: completed nextFE calls since construction
    args,            \* history: the arguments of the call in progress
    recType,         \* the record type of the slices handed to the struct loaders
    derived          \* history: what the derivations and encodings called on their own returned

vars == <<fes, defaultHeader, currentFEIndex, muHolder, callers, pc, op, opsLeft, req,
          dataBuf, bodyPos, i, feIdx, lastErr, tmpIdx, attempted,
          redirectReq, nRedirectSent, resp, result, nextFECount, args, recType, derived>>


(* ----------------------------- pure helpers ---------------------------- *)
\* the unread part of a reader over buf whose read offset is pos
Unread(buf, pos) == SubSeq(buf, pos + 1, Len(buf))

\* compressData: the four codecs turn the stream into another stream (here the
\* input framed by the codec's name); any other value returns the data as is
compressData(data, compression) ==
    IF compression \in {"GZIP", "LZ4_FRAME", "ZSTD", "BZIP2"}
    THEN <<compression>> \o data
    ELSE data

\* a stream whose Read returns an error (other than io.EOF) after its bytes
ReadError == "read error"
ReadFails(data) == \E k \in DOMAIN data : data[k] = ReadError
\* Load and LoadTransaction, buffering the stream: a codec's io.Copy fails inside
\* compressData; with any other compression value compressData returns the
\* stream itself and the copy into dataBuf fails
BufferError(opts) ==
    IF opts.Compression = CompressionNone THEN "buffer_data"
    ELSE IF opts.Compression \in {"GZIP", "LZ4_FRAME", "ZSTD", "BZIP2"} THEN "compress_data"
    ELSE "buffer_compressed_data"

\* header maps are functions from header name to value; Set overwrites
Set(h, k, v) == [x \in DOMAIN h \cup {k} |-> IF x = k THEN v ELSE h[x]]
SetIf(cond, h, k, v) == IF cond THEN Set(h, k, v) ELSE h
BoolStr(b) == IF b THEN "true" ELSE "false"

\* textproto.CanonicalMIMEHeaderKey on the header names that occur: the first
\* letter and each letter after a hyphen in upper case, every other letter in
\* lower case
CanonicalForms ==
    [k \in {"Expect", "expect"} |-> "Expect"]
    @@ [k \in {"Content-Type", "content-type"} |-> "Content-Type"]
    @@ [k \in {"X-Trace", "x-trace"} |-> "X-Trace"]
    @@ [k \in {"strip_outer_array", "Strip_outer_array"} |-> "Strip_outer_array"]
    @@ [k \in {"format", "Format"} |-> "Format"]
    @@ [k \in {"columns", "Columns"} |-> "Columns"]
    @@ [k \in {"column_separator", "Column_separator"} |-> "Column_separator"]
    @@ [k \in {"compression", "Compression"} |-> "Compression"]
    @@ [k \in {"label", "Label"} |-> "Label"]
    @@ [k \in {"db", "Db"} |-> "Db"]
    @@ [k \in {"table", "Table"} |-> "Table"]
CanonicalMIMEHeaderKey(k) == CanonicalForms[k]
\* req.Header.Set(k, v)
HeaderSet(h, k, v) == Set(h, CanonicalMIMEHeaderKey(k), v)
\* for k, v := range headers { req.Header.Set(k, v) }: the order in which a map
\* is ranged over is not specified, so of two keys with one canonical form
\* either may be set last; the set of the headers the loop may leave
RangeOver(headers, canon, keys, shared) ==
    IF shared = {}
    THEN {[c \in keys |-> headers[CHOOSE k \in DOMAIN headers : canon[k] = c]]}
    ELSE LET \* the keys set last, one of each canonical form
             last == {w \in SUBSET shared :
                         \A k \in shared :
                             Cardinality({j \in w : canon[j] = canon[k]}) = 1}
         IN {[c \in keys |->
                 headers[CHOOSE k \in DOMAIN headers :
                            canon[k] = c /\ (k \in shared => k \in w)]] : w \in last}
RangeSet(headers) ==
    UNION {RangeOver(m, CanonicalForms, {CanonicalForms[k] : k \in DOMAIN m},
                     {k \in DOMAIN m : \E j \in DOMAIN m \ {k} :
                                          CanonicalForms[j] = CanonicalForms[k]}) :
              m \in {headers}}
\* the header map of an operation together with each header it may leave on
\* the request
Requests(headers) ==
    UNION {{[headers |-> m, header |-> h] : h \in RangeSet(m)} : m \in {headers}}

\* getCurrentFEURL: "http://host:port" of the endpoint at index idx (a path is
\* the sequence of its segments)
FEURL(idx) == [scheme |-> "http", host |-> <<fes[idx + 1].Host, fes[idx + 1].Port>>,
               path |-> <<>>]

\* Load, lines 16-52 and 74-91: the header map of a bulk load
LoadHeaders(opts) ==
    LET h0 == defaultHeader
        h1 == Set(h0, "Expect", "100-continue")
        h2 == Set(h1, "strip_outer_array", BoolStr(opts.StripOuterArray))
        h3 == SetIf(opts.Format # "", h2, "format", opts.Format)
        h4 == SetIf(opts.Columns # NoColumns, h3, "columns", opts.Columns)
        h5 == SetIf(opts.Compression # CompressionNone, h4, "compression", opts.Compression)
        h6 == SetIf(opts.Label # "", h5, "label", opts.Label)
        h7 == SetIf(opts.ColumnSeparator # "", h6, "column_separator", opts.ColumnSeparator)
    IN h7

\* LoadTransaction, lines 285-338: the header map of a transaction load
LoadTransactionHeaders(label, table, opts) ==
    LET h0 == defaultHeader
        h1 == Set(h0, "Expect", "100-continue")
        h2 == Set(h1, "strip_outer_array", BoolStr(opts.StripOuterArray))
        h3 == Set(h2, "label", label)
        h4 == Set(h3, "db", "db")
        h5 == Set(h4, "table", table)
        h6 == SetIf(opts.Compression # CompressionNone, h5, "compression", opts.Compression)
        h7 == SetIf(opts.Format # "", h6, "format", opts.Format)
        h8 == SetIf(opts.Columns # NoColumns, h7, "columns", opts.Columns)
        h9 == SetIf(opts.ColumnSeparator # "", h8, "column_separator", opts.ColumnSeparator)
    IN h9

\* the header set of the four control operations (Begin adds the table)
ControlHeaders(o, label, table) ==
    LET h1 == HeaderSet(NoHeader, "Content-Type", "application/json")
        h2 == HeaderSet(h1, "Expect", "100-continue")
        h3 == HeaderSet(h2, "label", label)
        h4 == HeaderSet(h3, "db", "db")
    IN IF o = "BeginTransaction" THEN HeaderSet(h4, "table", table) ELSE h4

ControlPath(o) ==
    CASE o = "BeginTransaction" -> <<"api", "transaction", "begin">>
      [] o = "PrepareTransaction" -> <<"api", "transaction", "prepare">>
      [] o = "CommitTransaction" -> <<"api", "transaction", "commit">>
      [] o = "RollbackTransaction" -> <<"api", "transaction", "rollback">>

\* json.Unmarshal into the response struct of operation o: absent fields keep
\* the zero value.  A JSON value carries its kind; TxnId is an int64 field of
\* the four transaction responses (its value is written as its digits) and
\* no field of LoadResponse, where the key is ignored.
Field(doc, k, zero) == IF k \in DOMAIN doc THEN doc[k] ELSE zero
HasTxnIdField(o) == o \in ControlOps
\* the decoder rejects a JSON string (or any non-number) for an int64 field
TypeMismatch(o, doc) ==
    HasTxnIdField(o) /\ "TxnId" \in DOMAIN doc /\ doc["TxnId"].kind # "number"
Unmarshal(o, doc) ==
    [isNil |-> FALSE,
     Status |-> Field(doc, "Status", ""),
     Message |-> Field(doc, "Message", ""),
     NumberLoadedRows |-> Field(doc, "NumberLoadedRows", 0),
     TxnId |-> IF HasTxnIdField(o) /\ "TxnId" \in DOMAIN doc THEN doc["TxnId"].text ELSE "0"]
\* json.Unmarshal returns an error: the body is not JSON, or a value has not
\* the type of its field
ParseFails(o, body) == ~body.valid \/ TypeMismatch(o, body.doc)

Err(kind) == [kind |-> kind, attempt |-> 0, fe |-> 0]
Ret(rsp, err) == [resp |-> rsp, err |-> err, set |-> TRUE]

\* one sentinel for every operation that checks one
Sentinel_SameForAll(o) ==
    CASE o \in {"Load", "LoadTransaction", "PrepareTransaction"} -> "Success"
      [] OTHER -> ""

\* the status check that follows a successful decode, per operation
\* (the sentinel is "Success" for Load, "OK" for LoadTransaction and
\* PrepareTransaction; Begin, Commit and Rollback look at the HTTP status only)
Sentinel(o) ==
    CASE o = "Load" -> "Success"
      [] o \in {"LoadTransaction", "PrepareTransaction"} -> "OK"
      [] OTHER -> ""

\* a check of the decoded status field in CommitTransaction too
ChecksSentinel_Commit(o) ==
    o \in {"Load", "LoadTransaction", "PrepareTransaction", "CommitTransaction"}
\* a check of the decoded status field in BeginTransaction and
\* RollbackTransaction too
ChecksSentinel_BeginRollback(o) ==
    o \in {"Load", "LoadTransaction", "PrepareTransaction", "BeginTransaction",
           "RollbackTransaction"}
ChecksSentinel(o) == o \in {"Load", "LoadTransaction", "PrepareTransaction"}

\* Decode that returns nil with the error of a rejected response
Decode_DropsResponse(o, rsp) ==
    IF rsp.readErr THEN Ret(NilResp, Err("read_body"))
    ELSE IF ParseFails(o, rsp.body) THEN Ret(NilResp, Err("parse"))
    ELSE LET d == Unmarshal(o, rsp.body.doc) IN
         IF rsp.status # StatusOK THEN Ret(NilResp, Err("status"))
         ELSE IF ChecksSentinel(o) /\ d.Status # Sentinel(o) THEN Ret(NilResp, Err("app"))
         ELSE Ret(d, NoErr)

\* Decode that checks the status field before, and instead of, the HTTP status
Decode_IgnoresHTTPStatus(o, rsp) ==
    IF rsp.readErr THEN Ret(NilResp, Err("read_body"))
    ELSE IF ParseFails(o, rsp.body) THEN Ret(NilResp, Err("parse"))
    ELSE LET d == Unmarshal(o, rsp.body.doc) IN
         IF ChecksSentinel(o) /\ d.Status # Sentinel(o) THEN Ret(d, Err("app"))
         ELSE Ret(d, NoErr)

\* Decode that keeps the status but not the message of a rejected response
Decode_LosesMessage(o, rsp) ==
    IF rsp.readErr THEN Ret(NilResp, Err("read_body"))
    ELSE IF ParseFails(o, rsp.body) THEN Ret(NilResp, Err("parse"))
    ELSE LET d == Unmarshal(o, rsp.body.doc) IN
         IF rsp.status # StatusOK THEN Ret([d EXCEPT !.Message = ""], Err("status"))
         ELSE IF ChecksSentinel(o) /\ d.Status # Sentinel(o)
              THEN Ret([d EXCEPT !.Message = ""], Err("app"))
         ELSE Ret(d, NoErr)

\* the tail of every operation: read the body, decode it, classify the status
Decode(o, rsp) ==
    IF rsp.readErr THEN Ret(NilResp, Err("read_body"))
    ELSE IF ParseFails(o, rsp.body) THEN Ret(NilResp, Err("parse"))
    ELSE LET d == Unmarshal(o, rsp.body.doc) IN
         IF rsp.status # StatusOK THEN Ret(d, Err("status"))
         ELSE IF ChecksSentinel(o) /\ d.Status # Sentinel(o) THEN Ret(d, Err("app"))
         ELSE Ret(d, NoErr)

(* ------------------------------- inputs -------------------------------- *)
LoadOptionsSet ==
    [Format : {"csv"}, Compression : Compressions, Columns : {NoColumns},
     Label : {""}, StripOuterArray : {FALSE}, ColumnSeparator : {""}]
Labels == {"txn1"}
Tables == {"tbl"}
BasicAuth == <<"user", "pw">>

(* -------------------------------- Init --------------------------------- *)
\* NewClientWithFEs: a non-empty pool, index 0, no default header, lock free
NewClientWithFEs(pool) ==
    /\ Len(pool) # 0
    /\ fes = pool
    /\ currentFEIndex = 0
    /\ defaultHeader = NoHeader
    /\ muHolder = NoHolder

Init ==
    /\ \E n \in 1..MaxFEs : NewClientWithFEs(Pool(n))
    /\ callers \in {{Main}, {Main, Others}}
    /\ pc = [p \in AllCallers |-> IF p = Main THEN "idle" ELSE "doRequest"]
    /\ op = [p \in AllCallers |-> ""]
    /\ opsLeft = [p \in AllCallers |-> MaxOps]
    /\ req = [p \in AllCallers |-> NoReq]
    /\ dataBuf = [p \in AllCallers |-> <<>>]
    /\ bodyPos = [p \in AllCallers |-> 0]
    /\ i = [p \in AllCallers |-> 0]
    /\ feIdx = [p \in AllCallers |-> 0]
    /\ lastErr = [p \in AllCallers |-> NoErr]
    /\ tmpIdx = [p \in AllCallers |-> 0]
    /\ attempted = [p \in AllCallers |-> <<>>]
    /\ redirectReq = [p \in AllCallers |-> NoReq]
    /\ nRedirectSent = [p \in AllCallers |-> 0]
    /\ resp = [p \in AllCallers |-> NoResp]
    /\ result = [p \in AllCallers |-> NoResult]
    /\ nextFECount = 0
    /\ args = NoArgs
    /\ recType = <<>>
    /\ derived = {}

(* -------------------------- start of an operation ---------------------- *)
\* Start with a local check of the call order: a transaction call that is
\* not preceded by any other call is rejected without an HTTP request
Start_OrderChecked(p, o, r, buf) ==
    /\ p = Main
    /\ pc[p] = "idle"
    /\ opsLeft[p] > 0
    /\ muHolder = NoHolder
    /\ op' = [op EXCEPT ![p] = o]
    /\ req' = [req EXCEPT ![p] = r]
    /\ dataBuf' = [dataBuf EXCEPT ![p] = buf]
    /\ bodyPos' = [bodyPos EXCEPT ![p] = 0]
    /\ i' = [i EXCEPT ![p] = 0]
    /\ lastErr' = [lastErr EXCEPT ![p] = NoErr]
    /\ attempted' = [attempted EXCEPT ![p] = <<>>]
    /\ redirectReq' = [redirectReq EXCEPT ![p] = NoReq]
    /\ nRedirectSent' = [nRedirectSent EXCEPT ![p] = 0]
    /\ resp' = [resp EXCEPT ![p] = NoResp]
    /\ IF o \in {"PrepareTransaction", "CommitTransaction", "RollbackTransaction"}
          /\ opsLeft[p] = MaxOps
       THEN /\ result' = [result EXCEPT ![p] = Ret(NilResp, Err("order"))]
            /\ pc' = [pc EXCEPT ![p] = "done"]
       ELSE /\ result' = [result EXCEPT ![p] = NoResult]
            /\ pc' = [pc EXCEPT ![p] = "doRequest"]
    /\ UNCHANGED <<recType, derived, fes, defaultHeader, callers, currentFEIndex, muHolder, opsLeft,
                   feIdx, tmpIdx, nextFECount>>

\* what every operation does up to the call of doRequest: it reads the current
\* endpoint for urlStr (getCurrentFEURL, under the read lock), buffers the
\* body, builds the request, and enters doRequest with i = 0
Start(p, o, r, buf) ==
    /\ p = Main
    /\ pc[p] = "idle"
    /\ opsLeft[p] > 0
    /\ muHolder = NoHolder
    /\ op' = [op EXCEPT ![p] = o]
    /\ req' = [req EXCEPT ![p] = r]
    /\ dataBuf' = [dataBuf EXCEPT ![p] = buf]
    /\ bodyPos' = [bodyPos EXCEPT ![p] = 0]
    /\ i' = [i EXCEPT ![p] = 0]
    /\ lastErr' = [lastErr EXCEPT ![p] = NoErr]
    /\ attempted' = [attempted EXCEPT ![p] = <<>>]
    /\ redirectReq' = [redirectReq EXCEPT ![p] = NoReq]
    /\ nRedirectSent' = [nRedirectSent EXCEPT ![p] = 0]
    /\ resp' = [resp EXCEPT ![p] = NoResp]
    /\ result' = [result EXCEPT ![p] = NoResult]
    /\ pc' = [pc EXCEPT ![p] = "doRequest"]
    /\ UNCHANGED <<recType, derived, fes, defaultHeader, callers, currentFEIndex, muHolder, opsLeft,
                   feIdx, tmpIdx, nextFECount>>

URLOf(idx, path) == [FEURL(idx) EXCEPT !.path = path]

\* an operation that returns before it builds a request, and advances the
\* index on its way out
ReturnsEarly_AdvancesIndex(p, o, kind) ==
    /\ p = Main
    /\ pc[p] = "idle"
    /\ opsLeft[p] > 0
    /\ op' = [op EXCEPT ![p] = o]
    /\ result' = [result EXCEPT ![p] = Ret(NilResp, Err(kind))]
    /\ pc' = [pc EXCEPT ![p] = "done"]
    /\ currentFEIndex' = (currentFEIndex + 1) % Len(fes)
    /\ UNCHANGED <<recType, derived, fes, defaultHeader, callers, muHolder,
                   opsLeft, req, dataBuf, bodyPos, i, feIdx, lastErr, tmpIdx, attempted,
                   redirectReq, nRedirectSent, resp, nextFECount>>

\* an operation returns (nil, err) before it builds a request: the stream
\* could not be buffered (Load and LoadTransaction have read the current
\* endpoint by then), or the columns could not be derived, or the records
\* could not be encoded
ReturnsEarly(p, o, kind) ==
    /\ p = Main
    /\ pc[p] = "idle"
    /\ opsLeft[p] > 0
    /\ op' = [op EXCEPT ![p] = o]
    /\ result' = [result EXCEPT ![p] = Ret(NilResp, Err(kind))]
    /\ pc' = [pc EXCEPT ![p] = "done"]
    /\ UNCHANGED <<recType, derived, fes, defaultHeader, callers, currentFEIndex, muHolder,
                   opsLeft, req, dataBuf, bodyPos, i, feIdx, lastErr, tmpIdx, attempted,
                   redirectReq, nRedirectSent, resp, nextFECount>>

Load(p, table, data, opts) ==
    /\ pc[p] = "idle"
    /\ IF ReadFails(data)
       THEN muHolder = NoHolder /\ ReturnsEarly(p, "Load", BufferError(opts))
       ELSE \E h \in Requests(LoadHeaders(opts)) :
               Start(p, "Load",
                     [method |-> "PUT",
                      url |-> URLOf(currentFEIndex, <<"api", "db", table, "_stream_load">>),
                      header |-> h.header, headers |-> h.headers, auth |-> BasicAuth,
                      body |-> <<>>],
                     compressData(data, opts.Compression))
    /\ args' = [NoArgs EXCEPT !.table = table, !.data = data, !.opts = opts]

\* LoadTransaction that sends its first request with POST, like the control
\* operations
LoadTransaction_Post(p, label, table, data, opts) ==
    /\ pc[p] = "idle"
    /\ \E h \in Requests(LoadTransactionHeaders(label, table, opts)) :
          Start(p, "LoadTransaction",
                [method |-> "POST",
                 url |-> URLOf(currentFEIndex, <<"api", "transaction", "load">>),
                 header |-> h.header, headers |-> h.headers,
                 auth |-> BasicAuth, body |-> <<>>],
                compressData(data, opts.Compression))
    /\ args' = [NoArgs EXCEPT !.label = label, !.table = table, !.data = data, !.opts = opts]

LoadTransaction(p, label, table, data, opts) ==
    /\ pc[p] = "idle"
    /\ IF ReadFails(data)
       THEN muHolder = NoHolder /\ ReturnsEarly(p, "LoadTransaction", BufferError(opts))
       ELSE \E h \in Requests(LoadTransactionHeaders(label, table, opts)) :
               Start(p, "LoadTransaction",
                     [method |-> "PUT",
                      url |-> URLOf(currentFEIndex, <<"api", "transaction", "load">>),
                      header |-> h.header, headers |-> h.headers,
                      auth |-> BasicAuth, body |-> <<>>],
                     compressData(data, opts.Compression))
    /\ args' = [NoArgs EXCEPT !.label = label, !.table = table, !.data = data, !.opts = opts]

Control(p, o, label, table) ==
    Start(p, o,
          [method |-> "POST", url |-> URLOf(currentFEIndex, ControlPath(o)),
           header |-> ControlHeaders(o, label, table), headers |-> NoHeader,
           auth |-> BasicAuth, body |-> <<>>],
          <<>>)
    /\ args' = [NoArgs EXCEPT !.label = label, !.table = table]

BeginTransaction(p, label, table) == Control(p, "BeginTransaction", label, table)
PrepareTransaction(p, label) == Control(p, "PrepareTransaction", label, "")
CommitTransaction(p, label) == Control(p, "CommitTransaction", label, "")
RollbackTransaction(p, label) == Control(p, "RollbackTransaction", label, "")

(* ------------------------------ selector ------------------------------- *)
\* getCurrentFEURL: under the read lock (so not while nextFE holds the write
\* lock), the index of the endpoint whose URL is returned
getCurrentFEURL == currentFEIndex

\* nextFE without mutual exclusion: the load and the store are not protected
nextFELock_NoExclusion(p) ==
    /\ p \in callers
    /\ pc[p] = "nextFE"
    /\ muHolder' = p
    /\ tmpIdx' = [tmpIdx EXCEPT ![p] = currentFEIndex]
    /\ pc' = [pc EXCEPT ![p] = "nextFE_store"]
    /\ UNCHANGED <<recType, derived, args, fes, defaultHeader, callers, currentFEIndex, op, opsLeft, req,
                   dataBuf, bodyPos, i, feIdx, lastErr, attempted, redirectReq,
                   nRedirectSent, result, nextFECount, resp>>

\* nextFE, first half: c.mu.Lock() and the load of c.currentFEIndex
nextFELock(p) ==
    /\ p \in callers
    /\ pc[p] = "nextFE"
    /\ muHolder = NoHolder
    /\ muHolder' = p
    /\ tmpIdx' = [tmpIdx EXCEPT ![p] = currentFEIndex]
    /\ pc' = [pc EXCEPT ![p] = "nextFE_store"]
    /\ UNCHANGED <<recType, derived, args, fes, defaultHeader, callers, currentFEIndex, op, opsLeft, req,
                   dataBuf, bodyPos, i, feIdx, lastErr, attempted, redirectReq,
                   nRedirectSent, result, nextFECount, resp>>

\* nextFE without the wrap-around: the store is index + 1
nextFEStore_NoWrap(p) ==
    /\ p \in callers
    /\ pc[p] = "nextFE_store"
    /\ currentFEIndex' = tmpIdx[p] + 1
    /\ muHolder' = NoHolder
    /\ tmpIdx' = [tmpIdx EXCEPT ![p] = 0]
    /\ nextFECount' = nextFECount + 1
    /\ i' = [i EXCEPT ![p] = i[p] + 1]
    /\ pc' = [pc EXCEPT ![p] = "doRequest"]
    /\ UNCHANGED <<recType, derived, args, fes, defaultHeader, callers, op, opsLeft, req, dataBuf, bodyPos,
                   feIdx, lastErr, attempted, redirectReq, nRedirectSent, result, resp>>

\* nextFE with the rotation step off by one: the store adds 2 instead of 1
nextFEStore_StepTwo(p) ==
    /\ p \in callers
    /\ pc[p] = "nextFE_store"
    /\ currentFEIndex' = (tmpIdx[p] + 2) % Len(fes)
    /\ muHolder' = NoHolder
    /\ tmpIdx' = [tmpIdx EXCEPT ![p] = 0]
    /\ nextFECount' = nextFECount + 1
    /\ i' = [i EXCEPT ![p] = i[p] + 1]
    /\ pc' = [pc EXCEPT ![p] = "doRequest"]
    /\ UNCHANGED <<recType, derived, args, fes, defaultHeader, callers, op, opsLeft, req, dataBuf, bodyPos,
                   feIdx, lastErr, attempted, redirectReq, nRedirectSent, result, resp>>

\* nextFE that stops at the last endpoint instead of wrapping to the first
nextFEStore_Saturate(p) ==
    /\ p \in callers
    /\ pc[p] = "nextFE_store"
    /\ currentFEIndex' = IF tmpIdx[p] + 1 < Len(fes) THEN tmpIdx[p] + 1 ELSE tmpIdx[p]
    /\ muHolder' = NoHolder
    /\ tmpIdx' = [tmpIdx EXCEPT ![p] = 0]
    /\ nextFECount' = nextFECount + 1
    /\ i' = [i EXCEPT ![p] = i[p] + 1]
    /\ pc' = [pc EXCEPT ![p] = "doRequest"]
    /\ UNCHANGED <<recType, derived, args, fes, defaultHeader, callers, op, opsLeft, req, dataBuf, bodyPos,
                   feIdx, lastErr, attempted, redirectReq, nRedirectSent, result, resp>>

\* nextFE without the deferred Unlock: the mutex stays locked
nextFEStore_KeepsLock(p) ==
    /\ p \in callers
    /\ pc[p] = "nextFE_store"
    /\ currentFEIndex' = (tmpIdx[p] + 1) % Len(fes)
    /\ tmpIdx' = [tmpIdx EXCEPT ![p] = 0]
    /\ nextFECount' = nextFECount + 1
    /\ i' = [i EXCEPT ![p] = i[p] + 1]
    /\ pc' = [pc EXCEPT ![p] = "doRequest"]
    /\ UNCHANGED <<recType, derived, args, fes, defaultHeader, callers, muHolder, op, opsLeft, req, dataBuf,
                   bodyPos, feIdx, lastErr, attempted, redirectReq, nRedirectSent, result, resp>>

\* nextFE, second half: the store of (index + 1) % len(fes) and the deferred
\* Unlock (the loaded value goes out of scope); control returns to the loop
\* of doRequest, which increments i
nextFEStore(p) ==
    /\ p \in callers
    /\ pc[p] = "nextFE_store"
    /\ currentFEIndex' = (tmpIdx[p] + 1) % Len(fes)
    /\ muHolder' = NoHolder
    /\ tmpIdx' = [tmpIdx EXCEPT ![p] = 0]
    /\ nextFECount' = nextFECount + 1
    /\ i' = [i EXCEPT ![p] = i[p] + 1]
    /\ pc' = [pc EXCEPT ![p] = "doRequest"]
    /\ UNCHANGED <<recType, derived, args, fes, defaultHeader, callers, op, opsLeft, req, dataBuf, bodyPos,
                   feIdx, lastErr, attempted, redirectReq, nRedirectSent, result, resp>>

\* an attempt of an operation of another goroutine fails at the transport
\* level (its doRequest read the endpoint, sent, and got an error): it is
\* about to call nextFE
otherAttemptFailed(p) ==
    /\ p = Others
    /\ p \in callers
    /\ pc[p] = "doRequest"
    /\ i[p] < MaxOtherAdvances
    /\ muHolder = NoHolder
    /\ pc' = [pc EXCEPT ![p] = "nextFE"]
    /\ UNCHANGED <<recType, derived, args, fes, defaultHeader, callers, currentFEIndex, muHolder, op, opsLeft, req,
                   dataBuf, bodyPos, i, feIdx, lastErr, tmpIdx, attempted, redirectReq,
                   nRedirectSent, result, nextFECount, resp>>

(* ------------------------------ doRequest ------------------------------ *)
\* the clone of the template sent as it is, to the endpoint whose URL the
\* operation read when it built the template
retryReq_KeepsTarget(p) ==
    [req[p] EXCEPT !.body = Unread(dataBuf[p], bodyPos[p])]

\* the request of the attempt in flight: the clone of the template with the
\* scheme and host of the endpoint just read; the clone shares the template's
\* Body, so what it can send is what is still unread
retryReq(p) ==
    [req[p] EXCEPT !.url = [FEURL(feIdx[p]) EXCEPT !.path = FEURL(feIdx[p]).path \o req[p].url.path],
                   !.body = Unread(dataBuf[p], bodyPos[p])]

\* doRequestAttempt that takes the write lock before reading the endpoint and
\* keeps it for the duration of the send
doRequestAttempt_LockHeld(p) ==
    /\ p = Main
    /\ pc[p] = "doRequest"
    /\ i[p] < Len(fes)
    /\ muHolder = NoHolder
    /\ muHolder' = p
    /\ feIdx' = [feIdx EXCEPT ![p] = getCurrentFEURL]
    /\ attempted' = [attempted EXCEPT ![p] = Append(attempted[p], getCurrentFEURL)]
    /\ pc' = [pc EXCEPT ![p] = "sending"]
    /\ UNCHANGED <<recType, derived, args, fes, defaultHeader, callers, currentFEIndex, op, opsLeft,
                   req, dataBuf, bodyPos, i, lastErr, tmpIdx, redirectReq, nRedirectSent,
                   result, nextFECount, resp>>

\* doRequestAttempt whose loop bound is off by one (i <= maxRetries)
doRequestAttempt_OffByOne(p) ==
    /\ p = Main
    /\ pc[p] = "doRequest"
    /\ i[p] <= Len(fes)
    /\ muHolder = NoHolder
    /\ feIdx' = [feIdx EXCEPT ![p] = getCurrentFEURL]
    /\ attempted' = [attempted EXCEPT ![p] = Append(attempted[p], getCurrentFEURL)]
    /\ pc' = [pc EXCEPT ![p] = "sending"]
    /\ UNCHANGED <<recType, derived, args, fes, defaultHeader, callers, currentFEIndex, muHolder, op, opsLeft,
                   req, dataBuf, bodyPos, i, lastErr, tmpIdx, redirectReq, nRedirectSent,
                   result, nextFECount, resp>>

\* loop head with i < maxRetries: read the current endpoint, clone, send
doRequestAttempt(p) ==
    /\ p = Main
    /\ pc[p] = "doRequest"
    /\ i[p] < Len(fes)
    /\ muHolder = NoHolder
    /\ feIdx' = [feIdx EXCEPT ![p] = getCurrentFEURL]
    /\ attempted' = [attempted EXCEPT ![p] = Append(attempted[p], getCurrentFEURL)]
    /\ pc' = [pc EXCEPT ![p] = "sending"]
    /\ UNCHANGED <<recType, derived, args, fes, defaultHeader, callers, currentFEIndex, muHolder, op, opsLeft,
                   req, dataBuf, bodyPos, i, lastErr, tmpIdx, redirectReq, nRedirectSent,
                   result, nextFECount, resp>>

\* loop exit with i = maxRetries: doRequest returns (nil, lastErr) and the
\* operation returns (nil, "failed to send request: lastErr")
doRequestExhausted(p) ==
    /\ p = Main
    /\ pc[p] = "doRequest"
    /\ ~(i[p] < Len(fes))
    /\ result' = [result EXCEPT ![p] = Ret(NilResp, [lastErr[p] EXCEPT !.kind = "send"])]
    /\ pc' = [pc EXCEPT ![p] = "done"]
    /\ UNCHANGED <<recType, derived, args, fes, defaultHeader, callers, currentFEIndex, muHolder, op, opsLeft,
                   req, dataBuf, bodyPos, i, feIdx, lastErr, tmpIdx, attempted, redirectReq,
                   nRedirectSent, nextFECount, resp>>

\* httpDoError that takes the endpoint that failed out of the pool
httpDoError_DropsEndpoint(p, n) ==
    /\ p = Main
    /\ pc[p] = "sending"
    /\ n \in 0..Len(Unread(dataBuf[p], bodyPos[p]))
    /\ bodyPos' = [bodyPos EXCEPT ![p] = bodyPos[p] + n]
    /\ lastErr' = [lastErr EXCEPT ![p] = [kind |-> "transport", attempt |-> i[p] + 1,
                                         fe |-> feIdx[p]]]
    /\ fes' = IF Len(fes) > 1
              THEN SubSeq(fes, 1, feIdx[p]) \o SubSeq(fes, feIdx[p] + 2, Len(fes))
              ELSE fes
    /\ pc' = [pc EXCEPT ![p] = "nextFE"]
    /\ UNCHANGED <<recType, derived, args, defaultHeader, callers, currentFEIndex, muHolder,
                   op, opsLeft, req, dataBuf, i, feIdx, tmpIdx, attempted, redirectReq,
                   nRedirectSent, result, nextFECount, resp>>

\* httpDoError that skips nextFE after the last attempt of the loop
httpDoError_NoAdvanceOnLast(p, n) ==
    /\ p = Main
    /\ pc[p] = "sending"
    /\ n \in 0..Len(Unread(dataBuf[p], bodyPos[p]))
    /\ bodyPos' = [bodyPos EXCEPT ![p] = bodyPos[p] + n]
    /\ lastErr' = [lastErr EXCEPT ![p] = [kind |-> "transport", attempt |-> i[p] + 1,
                                         fe |-> feIdx[p]]]
    /\ IF i[p] + 1 < Len(fes)
       THEN pc' = [pc EXCEPT ![p] = "nextFE"] /\ UNCHANGED i
       ELSE pc' = [pc EXCEPT ![p] = "doRequest"] /\ i' = [i EXCEPT ![p] = i[p] + 1]
    /\ UNCHANGED <<recType, derived, args, fes, defaultHeader, callers, currentFEIndex, muHolder, op, opsLeft,
                   req, dataBuf, feIdx, tmpIdx, attempted, redirectReq, nRedirectSent,
                   result, nextFECount, resp>>

\* httpClient.Do fails: n bytes of the body were read by the transport before
\* the failure; lastErr = err, and nextFE is called
httpDoError(p, n) ==
    /\ p = Main
    /\ pc[p] = "sending"
    /\ n \in 0..Len(Unread(dataBuf[p], bodyPos[p]))
    /\ bodyPos' = [bodyPos EXCEPT ![p] = bodyPos[p] + n]
    /\ lastErr' = [lastErr EXCEPT ![p] = [kind |-> "transport", attempt |-> i[p] + 1,
                                         fe |-> feIdx[p]]]
    /\ pc' = [pc EXCEPT ![p] = "nextFE"]
    /\ UNCHANGED <<recType, derived, args, fes, defaultHeader, callers, currentFEIndex, muHolder, op, opsLeft,
                   req, dataBuf, i, feIdx, tmpIdx, attempted, redirectReq, nRedirectSent,
                   result, nextFECount, resp>>

(* ------------------- the response and the 307 redirect ----------------- *)
\* the redirect request of a control operation (its headers are set again,
\* one by one, on the new request)
ControlRedirectHeaders(o, label, table) ==
    LET h1 == HeaderSet(NoHeader, "Content-Type", "application/json")
        h2 == HeaderSet(h1, "Expect", "100-continue")
        h3 == HeaderSet(h2, "label", label)
        h4 == HeaderSet(h3, "db", "db")
    IN IF o = "BeginTransaction" THEN HeaderSet(h4, "table", table) ELSE h4

\* reader.Seek(0, io.SeekStart) of LoadTransaction; Load has no such call
SeekStart(o, pos) == IF o = "LoadTransaction" THEN 0 ELSE pos

\* the headers the redirect request may get: Load and LoadTransaction range
\* over their header map once more, the control operations set theirs anew
RedirectHeaders(o, r) ==
    IF o \in BodyOps THEN RangeSet(r.headers)
    ELSE {ControlRedirectHeaders(o, r.header["Label"], Field(r.header, "Table", ""))}

\* http.NewRequest(method, location, body) of the redirect, per operation:
\* Load hands in &dataBuf (what is still unread), LoadTransaction the reader
\* it has just rewound, the control operations nil
NewRedirectRequest(o, r, h, location, buf, pos) ==
    [method |-> IF o \in BodyOps THEN "PUT" ELSE "POST",
     url |-> location,
     header |-> h,
     headers |-> r.headers,
     auth |-> BasicAuth,
     body |-> IF o \in BodyOps THEN Unread(buf, SeekStart(o, pos)) ELSE <<>>]

\* httpDoResponse that rotates to the next endpoint after a successful call too
httpDoResponse_Rotate(p, r, n) ==
    /\ p = Main
    /\ pc[p] = "sending"
    /\ r.status # StatusTemporaryRedirect
    /\ n \in 0..Len(Unread(dataBuf[p], bodyPos[p]))
    /\ bodyPos' = [bodyPos EXCEPT ![p] = bodyPos[p] + n]
    /\ resp' = [resp EXCEPT ![p] = r]
    /\ result' = [result EXCEPT ![p] = Decode(op[p], r)]
    /\ pc' = [pc EXCEPT ![p] = "done"]
    /\ muHolder = NoHolder
    /\ currentFEIndex' = (currentFEIndex + 1) % Len(fes)
    /\ UNCHANGED <<recType, derived, args, fes, defaultHeader, callers, muHolder, op, opsLeft,
                   req, dataBuf, i, feIdx, lastErr, tmpIdx, attempted, redirectReq,
                   nRedirectSent, nextFECount>>

\* httpDoResponse that treats a 5xx answer as a failed attempt and fails over
httpDoResponse_FailoverOn5xx(p, r, n) ==
    /\ p = Main
    /\ pc[p] = "sending"
    /\ r.status # StatusTemporaryRedirect
    /\ n \in 0..Len(Unread(dataBuf[p], bodyPos[p]))
    /\ bodyPos' = [bodyPos EXCEPT ![p] = bodyPos[p] + n]
    /\ resp' = [resp EXCEPT ![p] = r]
    /\ IF r.status >= StatusInternalServerError
       THEN /\ pc' = [pc EXCEPT ![p] = "nextFE"]
            /\ lastErr' = [lastErr EXCEPT ![p] = [kind |-> "transport", attempt |-> i[p] + 1,
                                                 fe |-> feIdx[p]]]
            /\ UNCHANGED result
       ELSE /\ pc' = [pc EXCEPT ![p] = "done"]
            /\ result' = [result EXCEPT ![p] = Decode(op[p], r)]
            /\ UNCHANGED lastErr
    /\ UNCHANGED <<recType, derived, args, fes, defaultHeader, callers, currentFEIndex, muHolder, op, opsLeft,
                   req, dataBuf, i, feIdx, tmpIdx, attempted, redirectReq,
                   nRedirectSent, nextFECount>>

\* httpDoResponse that treats a body it cannot decode as a failed attempt
httpDoResponse_RetryOnParseError(p, r, n) ==
    /\ p = Main
    /\ pc[p] = "sending"
    /\ r.status # StatusTemporaryRedirect
    /\ n \in 0..Len(Unread(dataBuf[p], bodyPos[p]))
    /\ bodyPos' = [bodyPos EXCEPT ![p] = bodyPos[p] + n]
    /\ resp' = [resp EXCEPT ![p] = r]
    /\ IF Decode(op[p], r).err.kind = "parse"
       THEN /\ pc' = [pc EXCEPT ![p] = "nextFE"]
            /\ lastErr' = [lastErr EXCEPT ![p] = [kind |-> "transport", attempt |-> i[p] + 1,
                                                 fe |-> feIdx[p]]]
            /\ UNCHANGED result
       ELSE /\ pc' = [pc EXCEPT ![p] = "done"]
            /\ result' = [result EXCEPT ![p] = Decode(op[p], r)]
            /\ UNCHANGED lastErr
    /\ UNCHANGED <<recType, derived, args, fes, defaultHeader, callers, currentFEIndex, muHolder, op, opsLeft,
                   req, dataBuf, i, feIdx, tmpIdx, attempted, redirectReq,
                   nRedirectSent, nextFECount>>

\* httpClient.Do returns a response other than 307: doRequest returns it and
\* the operation decodes and classifies it
httpDoResponse(p, r, n) ==
    /\ p = Main
    /\ pc[p] = "sending"
    /\ r.status # StatusTemporaryRedirect
    /\ n \in 0..Len(Unread(dataBuf[p], bodyPos[p]))
    /\ bodyPos' = [bodyPos EXCEPT ![p] = bodyPos[p] + n]
    /\ resp' = [resp EXCEPT ![p] = r]
    /\ result' = [result EXCEPT ![p] = Decode(op[p], r)]
    /\ pc' = [pc EXCEPT ![p] = "done"]
    /\ UNCHANGED <<recType, derived, args, fes, defaultHeader, callers, currentFEIndex, muHolder, op, opsLeft,
                   req, dataBuf, i, feIdx, lastErr, tmpIdx, attempted, redirectReq,
                   nRedirectSent, nextFECount>>

\* a 307 without Location that is followed all the same, to the empty URL
httpDoRedirectNoLocation_Follow(p, r, n) ==
    /\ p = Main
    /\ pc[p] = "sending"
    /\ r.status = StatusTemporaryRedirect
    /\ r.location = NoURL
    /\ n \in 0..Len(Unread(dataBuf[p], bodyPos[p]))
    /\ bodyPos' = [bodyPos EXCEPT ![p] = SeekStart(op[p], bodyPos[p] + n)]
    /\ resp' = [resp EXCEPT ![p] = r]
    /\ \E h \in RedirectHeaders(op[p], req[p]) :
          redirectReq' = [redirectReq EXCEPT ![p] =
              NewRedirectRequest(op[p], req[p], h, r.location, dataBuf[p], bodyPos[p] + n)]
    /\ nRedirectSent' = [nRedirectSent EXCEPT ![p] = nRedirectSent[p] + 1]
    /\ pc' = [pc EXCEPT ![p] = "redirecting"]
    /\ UNCHANGED <<recType, derived, args, fes, defaultHeader, callers, currentFEIndex, muHolder, op, opsLeft,
                   req, dataBuf, i, feIdx, lastErr, tmpIdx, attempted, result, nextFECount>>

\* the response is a 307 without Location: the operation returns an error
httpDoRedirectNoLocation(p, r, n) ==
    /\ p = Main
    /\ pc[p] = "sending"
    /\ r.status = StatusTemporaryRedirect
    /\ r.location = NoURL
    /\ n \in 0..Len(Unread(dataBuf[p], bodyPos[p]))
    /\ bodyPos' = [bodyPos EXCEPT ![p] = bodyPos[p] + n]
    /\ resp' = [resp EXCEPT ![p] = r]
    /\ result' = [result EXCEPT ![p] = Ret(NilResp, Err("no_location"))]
    /\ pc' = [pc EXCEPT ![p] = "done"]
    /\ UNCHANGED <<recType, derived, args, fes, defaultHeader, callers, currentFEIndex, muHolder, op, opsLeft,
                   req, dataBuf, i, feIdx, lastErr, tmpIdx, attempted, redirectReq,
                   nRedirectSent, nextFECount>>

\* the response is a 307 with a Location: the operation builds the redirect
\* request and sends it with httpClient.Do, outside doRequest
httpDoRedirect(p, r, n) ==
    /\ p = Main
    /\ pc[p] = "sending"
    /\ r.status = StatusTemporaryRedirect
    /\ r.location # NoURL
    /\ n \in 0..Len(Unread(dataBuf[p], bodyPos[p]))
    /\ bodyPos' = [bodyPos EXCEPT ![p] = SeekStart(op[p], bodyPos[p] + n)]
    /\ resp' = [resp EXCEPT ![p] = r]
    /\ \E h \in RedirectHeaders(op[p], req[p]) :
          redirectReq' = [redirectReq EXCEPT ![p] =
              NewRedirectRequest(op[p], req[p], h, r.location, dataBuf[p], bodyPos[p] + n)]
    /\ nRedirectSent' = [nRedirectSent EXCEPT ![p] = nRedirectSent[p] + 1]
    /\ pc' = [pc EXCEPT ![p] = "redirecting"]
    /\ UNCHANGED <<recType, derived, args, fes, defaultHeader, callers, currentFEIndex, muHolder, op, opsLeft,
                   req, dataBuf, i, feIdx, lastErr, tmpIdx, attempted, result, nextFECount>>

\* a failed redirect request that is handed back to the failover loop
redirectError_Failover(p) ==
    /\ p = Main
    /\ pc[p] = "redirecting"
    /\ lastErr' = [lastErr EXCEPT ![p] = [kind |-> "transport", attempt |-> i[p] + 1,
                                         fe |-> feIdx[p]]]
    /\ pc' = [pc EXCEPT ![p] = "nextFE"]
    /\ UNCHANGED <<recType, derived, args, fes, defaultHeader, callers, currentFEIndex, muHolder, op, opsLeft,
                   req, dataBuf, bodyPos, i, feIdx, tmpIdx, attempted, redirectReq,
                   nRedirectSent, nextFECount, resp, result>>

\* the redirect request fails at the transport level
redirectError(p) ==
    /\ p = Main
    /\ pc[p] = "redirecting"
    /\ result' = [result EXCEPT ![p] = Ret(NilResp, Err("redirect_send"))]
    /\ pc' = [pc EXCEPT ![p] = "done"]
    /\ UNCHANGED <<recType, derived, args, fes, defaultHeader, callers, currentFEIndex, muHolder, op, opsLeft,
                   req, dataBuf, bodyPos, i, feIdx, lastErr, tmpIdx, attempted, redirectReq,
                   nRedirectSent, nextFECount, resp>>

\* redirectResponse that follows a 307 with a Location once more
redirectResponse_FollowsAgain(p, r) ==
    /\ p = Main
    /\ pc[p] = "redirecting"
    /\ resp' = [resp EXCEPT ![p] = r]
    /\ IF r.status = StatusTemporaryRedirect /\ r.location # NoURL /\ nRedirectSent[p] < 2
       THEN /\ nRedirectSent' = [nRedirectSent EXCEPT ![p] = nRedirectSent[p] + 1]
            /\ UNCHANGED <<result, pc>>
       ELSE /\ result' = [result EXCEPT ![p] = Decode(op[p], r)]
            /\ pc' = [pc EXCEPT ![p] = "done"]
            /\ UNCHANGED nRedirectSent
    /\ UNCHANGED <<recType, derived, args, fes, defaultHeader, callers, currentFEIndex, muHolder, op, opsLeft,
                   req, dataBuf, bodyPos, i, feIdx, lastErr, tmpIdx, attempted, redirectReq,
                   nextFECount>>

\* the redirect request is answered: that response is the effective one
redirectResponse(p, r) ==
    /\ p = Main
    /\ pc[p] = "redirecting"
    /\ resp' = [resp EXCEPT ![p] = r]
    /\ result' = [result EXCEPT ![p] = Decode(op[p], r)]
    /\ pc' = [pc EXCEPT ![p] = "done"]
    /\ UNCHANGED <<recType, derived, args, fes, defaultHeader, callers, currentFEIndex, muHolder, op, opsLeft,
                   req, dataBuf, bodyPos, i, feIdx, lastErr, tmpIdx, attempted, redirectReq,
                   nRedirectSent, nextFECount>>

\* the operation returns to its caller
Return(p) ==
    /\ p = Main
    /\ pc[p] = "done"
    /\ pc' = [pc EXCEPT ![p] = "idle"]
    /\ opsLeft' = [opsLeft EXCEPT ![p] = opsLeft[p] - 1]
    /\ op' = [op EXCEPT ![p] = ""]
    /\ req' = [req EXCEPT ![p] = NoReq]
    /\ dataBuf' = [dataBuf EXCEPT ![p] = <<>>]
    /\ bodyPos' = [bodyPos EXCEPT ![p] = 0]
    /\ i' = [i EXCEPT ![p] = 0]
    /\ feIdx' = [feIdx EXCEPT ![p] = 0]
    /\ lastErr' = [lastErr EXCEPT ![p] = NoErr]
    /\ tmpIdx' = [tmpIdx EXCEPT ![p] = 0]
    /\ attempted' = [attempted EXCEPT ![p] = <<>>]
    /\ redirectReq' = [redirectReq EXCEPT ![p] = NoReq]
    /\ nRedirectSent' = [nRedirectSent EXCEPT ![p] = 0]
    /\ resp' = [resp EXCEPT ![p] = NoResp]
    /\ result' = [result EXCEPT ![p] = NoResult]
    /\ args' = NoArgs
    /\ UNCHANGED <<recType, derived, fes, defaultHeader, callers, currentFEIndex, muHolder, nextFECount>>

(* ------------------------------- Next ---------------------------------- *)
Next ==
    \/ \E p \in AllCallers, t \in Tables, d \in Inputs, o \in LoadOptionsSet : Load(p, t, d, o)
    \/ \E p \in AllCallers, l \in Labels, t \in Tables, d \in Inputs, o \in LoadOptionsSet :
          LoadTransaction(p, l, t, d, o)
    \/ \E p \in AllCallers, l \in Labels, t \in Tables : BeginTransaction(p, l, t)
    \/ \E p \in AllCallers, l \in Labels : PrepareTransaction(p, l)
    \/ \E p \in AllCallers, l \in Labels : CommitTransaction(p, l)
    \/ \E p \in AllCallers, l \in Labels : RollbackTransaction(p, l)
    \/ \E p \in AllCallers : otherAttemptFailed(p)
    \/ \E p \in AllCallers : doRequestAttempt(p)
    \/ \E p \in AllCallers : doRequestExhausted(p)
    \/ \E p \in AllCallers, n \in ReadLens : httpDoError(p, n)
    \/ \E p \in AllCallers : nextFELock(p)
    \/ \E p \in AllCallers : nextFEStore(p)
    \/ \E p \in AllCallers, r \in Responses, n \in ReadLens : httpDoResponse(p, r, n)
    \/ \E p \in AllCallers, r \in Responses, n \in ReadLens :
          httpDoRedirectNoLocation(p, r, n)
    \/ \E p \in AllCallers, r \in Responses, n \in ReadLens : httpDoRedirect(p, r, n)
    \/ \E p \in AllCallers : redirectError(p)
    \/ \E p \in AllCallers, r \in Responses : redirectResponse(p, r)
    \/ \E p \in AllCallers : Return(p)

Spec == Init /\ [][Next]_vars

(* ------------- the client from its construction: SpecAPI ---------------- *)
\* A second specification follows one caller from the call of the
\* constructor, with SetDefaultHeader, a compression value outside the named
\* constants, and transaction responses that carry a TxnId.

\* the endpoint lists a caller may hand to the constructor
PoolArgs == {<<>>} \cup {Pool(n) : n \in 1..MaxFEs}
DefaultHeaderKeys == {"X-Trace"}
DefaultHeaderValues == {"on"}
\* "SNAPPY" is a CompressionType value that is none of the named constants
APICompressions == {CompressionNone, CompressionGZIP, "SNAPPY"}
APILoadOptionsSet ==
    [Format : {"csv"}, Compression : APICompressions, Columns : {NoColumns},
     Label : {""}, StripOuterArray : {FALSE}, ColumnSeparator : {""}]
\* transaction responses with the TxnId as a JSON string and as a JSON number
TxnBodies ==
    { [TxnId |-> [kind |-> k, text |-> "123456"], Status |-> "OK",
       Message |-> "Transaction started"] : k \in {"string", "number"} }
APIResponses ==
    Responses
    \cup [status : {StatusOK}, location : {NoURL},
          body : {[valid |-> TRUE, doc |-> d] : d \in TxnBodies}, readErr : {FALSE}]

\* before the constructor is called there is no client
InitAPI ==
    /\ fes = <<>>
    /\ currentFEIndex = 0
    /\ defaultHeader = NoHeader
    /\ muHolder = NoHolder
    /\ callers = {Main}
    /\ pc = [p \in AllCallers |-> IF p = Main THEN "new" ELSE "doRequest"]
    /\ op = [p \in AllCallers |-> ""]
    /\ opsLeft = [p \in AllCallers |-> MaxOps]
    /\ req = [p \in AllCallers |-> NoReq]
    /\ dataBuf = [p \in AllCallers |-> <<>>]
    /\ bodyPos = [p \in AllCallers |-> 0]
    /\ i = [p \in AllCallers |-> 0]
    /\ feIdx = [p \in AllCallers |-> 0]
    /\ lastErr = [p \in AllCallers |-> NoErr]
    /\ tmpIdx = [p \in AllCallers |-> 0]
    /\ attempted = [p \in AllCallers |-> <<>>]
    /\ redirectReq = [p \in AllCallers |-> NoReq]
    /\ nRedirectSent = [p \in AllCallers |-> 0]
    /\ resp = [p \in AllCallers |-> NoResp]
    /\ result = [p \in AllCallers |-> NoResult]
    /\ nextFECount = 0
    /\ args = NoArgs
    /\ recType = <<>>
    /\ derived = {}

\* the constructor without its check of the list
CallNewClientWithFEs_NoCheck(p, pool) ==
    /\ p = Main
    /\ pc[p] = "new"
    /\ fes' = pool
    /\ currentFEIndex' = 0
    /\ defaultHeader' = NoHeader
    /\ pc' = [pc EXCEPT ![p] = "idle"]
    /\ UNCHANGED <<recType, derived, args, callers, muHolder, op, opsLeft, req, dataBuf,
                   bodyPos, i, feIdx, lastErr, tmpIdx, attempted, redirectReq,
                   nRedirectSent, resp, result, nextFECount>>

\* the call of NewClientWithFEs: it panics on an empty list and returns no
\* client; otherwise the client has the list, index 0 and no default header
CallNewClientWithFEs(p, pool) ==
    /\ p = Main
    /\ pc[p] = "new"
    /\ IF Len(pool) = 0
       THEN /\ pc' = [pc EXCEPT ![p] = "panicked"]
            /\ UNCHANGED <<fes, currentFEIndex, defaultHeader>>
       ELSE /\ fes' = pool
            /\ currentFEIndex' = 0
            /\ defaultHeader' = NoHeader
            /\ pc' = [pc EXCEPT ![p] = "idle"]
    /\ UNCHANGED <<recType, derived, args, callers, muHolder, op, opsLeft, req, dataBuf,
                   bodyPos, i, feIdx, lastErr, tmpIdx, attempted, redirectReq,
                   nRedirectSent, resp, result, nextFECount>>

\* SetDefaultHeader, called between two operations
SetDefaultHeader(p, key, value) ==
    /\ p = Main
    /\ pc[p] = "idle"
    /\ defaultHeader' = Set(defaultHeader, key, value)
    /\ UNCHANGED <<recType, derived, args, fes, callers, currentFEIndex, muHolder, pc, op,
                   opsLeft, req, dataBuf, bodyPos, i, feIdx, lastErr, tmpIdx, attempted,
                   redirectReq, nRedirectSent, resp, result, nextFECount>>

NextAPI ==
    \/ \E p \in callers, pool \in PoolArgs : CallNewClientWithFEs(p, pool)
    \/ \E p \in callers, k \in DefaultHeaderKeys, v \in DefaultHeaderValues :
          SetDefaultHeader(p, k, v)
    \/ \E p \in callers, t \in Tables, d \in Inputs, o \in APILoadOptionsSet : Load(p, t, d, o)
    \/ \E p \in callers, l \in Labels, t \in Tables, d \in Inputs, o \in APILoadOptionsSet :
          LoadTransaction(p, l, t, d, o)
    \/ \E p \in callers, l \in Labels, t \in Tables : BeginTransaction(p, l, t)
    \/ \E p \in callers, l \in Labels : PrepareTransaction(p, l)
    \/ \E p \in callers, l \in Labels : CommitTransaction(p, l)
    \/ \E p \in callers, l \in Labels : RollbackTransaction(p, l)
    \/ \E p \in callers : doRequestAttempt(p)
    \/ \E p \in callers : doRequestExhausted(p)
    \/ \E p \in callers, n \in ReadLens : httpDoError(p, n)
    \/ \E p \in callers : nextFELock(p)
    \/ \E p \in callers : nextFEStore(p)
    \/ \E p \in callers, r \in APIResponses, n \in ReadLens : httpDoResponse(p, r, n)
    \/ \E p \in callers, r \in APIResponses, n \in ReadLens :
          httpDoRedirectNoLocation(p, r, n)
    \/ \E p \in callers, r \in APIResponses, n \in ReadLens : httpDoRedirect(p, r, n)
    \/ \E p \in callers : redirectError(p)
    \/ \E p \in callers, r \in APIResponses : redirectResponse(p, r)
    \/ \E p \in callers : Return(p)

SpecAPI == InitAPI /\ [][NextAPI]_vars

(* --------------- column derivation and payload encoding ----------------- *)
MaxFields == 2     \* most fields of a record type

\* A struct field has a name and a tag, read under the key csv and under the
\* key json alike.  A name or a tag name is a pair <<letters, k>>, k the
\* position of the field, so that the fields of a type have distinct names;
\* an exported name starts with an upper-case letter.  A tag is its name and
\* its comma-separated options; the tag "" is NoTag.
NoTag == [name |-> <<>>, opts |-> <<>>]
DashTag == [name |-> <<"-">>, opts |-> <<>>]
NamedTag(k) == [name |-> <<"c", k>>, opts |-> <<>>]
FieldDescs(k) == [Name : {<<"F", k>>, <<"u", k>>}, Tag : {NoTag, DashTag, NamedTag(k)}]
\* the record types: every sequence of at most MaxFields field descriptors
RecordTypes ==
    UNION { {t \in [1..n -> UNION {FieldDescs(k) : k \in 1..n}] :
                \A k \in 1..n : t[k] \in FieldDescs(k)} : n \in 0..MaxFields }

IsExported(name) == name[1] = "F"
\* strings.ToLower of a field name
ToLower(name) == IF name[1] = "F" THEN <<"f", name[2]>> ELSE name
\* the text of a tag: its name, then its options
TagText(tag) == tag.name \o tag.opts

\* The value handed in as structs: its kind once a pointer is followed, the
\* kind of its elements once a pointer is followed, and for a slice of
\* structs its elements, each the value v that all its fields hold.
SliceInputs ==
    {s \in [kind : {"slice"}, ptr : BOOLEAN, elem : {"struct"}, elemPtr : BOOLEAN,
            rows : {<<>>, <<0>>, <<1, 1>>}] :
        /\ s.ptr = s.elemPtr
        /\ s.ptr => Len(s.rows) = 1}
StructsInputs ==
    SliceInputs \cup {[kind |-> "map", ptr |-> FALSE, elem |-> "struct", elemPtr |-> FALSE,
                       rows |-> <<>>],
                      [kind |-> "slice", ptr |-> FALSE, elem |-> "int", elemPtr |-> FALSE,
                       rows |-> <<0>>]}
\* the slices handed to the encoders alone
EncoderInputs == {s \in SliceInputs : Len(s.rows) > 1 /\ ~s.ptr}

\* what a derivation or an encoding returns: an error or columns or rows
Derivation(err, columns, rows) == [err |-> err, columns |-> columns, rows |-> rows]

\* extractCSVColumns, lines 113-129: the loop over the fields from field k on
RECURSIVE csvColumnsFrom(_, _, _)
csvColumnsFrom(elemType, k, numField) ==
    IF k > numField THEN <<>>
    ELSE LET field == elemType[k]
             csvTag == IF field.Tag = NoTag THEN ToLower(field.Name) ELSE TagText(field.Tag)
         IN IF csvTag = <<"-">>
            THEN csvColumnsFrom(elemType, k + 1, numField)
            ELSE <<csvTag>> \o csvColumnsFrom(elemType, k + 1, numField)

\* extractCSVColumns whose loop runs over the elements of the slice instead of
\* the fields of the type
extractCSVColumns_OverElements(structs, elemType) ==
    IF structs.kind # "slice" THEN Derivation("must be a slice", <<>>, {})
    ELSE IF Len(structs.rows) = 0 THEN Derivation("slice is empty", <<>>, {})
    ELSE IF structs.elem # "struct" THEN Derivation("must be structs", <<>>, {})
    ELSE LET n == IF Len(structs.rows) < Len(elemType) THEN Len(structs.rows)
                  ELSE Len(elemType)
             columns == csvColumnsFrom(elemType, 1, n)
         IN IF Len(columns) = 0 THEN Derivation("no columns found", <<>>, {})
            ELSE Derivation("", columns, {})

\* extractCSVColumns: the comma-joined columns are the sequence of their names
extractCSVColumns(structs, elemType) ==
    IF structs.kind # "slice" THEN Derivation("must be a slice", <<>>, {})
    ELSE IF Len(structs.rows) = 0 THEN Derivation("slice is empty", <<>>, {})
    ELSE IF structs.elem # "struct" THEN Derivation("must be structs", <<>>, {})
    ELSE LET columns == csvColumnsFrom(elemType, 1, Len(elemType))
         IN IF Len(columns) = 0 THEN Derivation("no columns found", <<>>, {})
            ELSE Derivation("", columns, {})

\* extractJSONColumns, lines 173-194: as for csv, with the tag cut at its
\* first comma
RECURSIVE jsonColumnsFrom(_, _, _)
jsonColumnsFrom(elemType, k, numField) ==
    IF k > numField THEN <<>>
    ELSE LET field == elemType[k]
             jsonTag == IF field.Tag = NoTag THEN ToLower(field.Name) ELSE field.Tag.name
         IN IF jsonTag = <<"-">>
            THEN jsonColumnsFrom(elemType, k + 1, numField)
            ELSE <<jsonTag>> \o jsonColumnsFrom(elemType, k + 1, numField)

extractJSONColumns(structs, elemType) ==
    IF structs.kind # "slice" THEN Derivation("must be a slice", <<>>, {})
    ELSE IF Len(structs.rows) = 0 THEN Derivation("slice is empty", <<>>, {})
    ELSE IF structs.elem # "struct" THEN Derivation("must be structs", <<>>, {})
    ELSE LET columns == jsonColumnsFrom(elemType, 1, Len(elemType))
         IN IF Len(columns) = 0 THEN Derivation("no columns found", <<>>, {})
            ELSE Derivation("", columns, {})

\* the positions of the fields an encoder writes: gocsv and encoding/json
\* both leave out unexported fields and fields tagged "-"
EncodedFields(elemType) ==
    SelectSeq([k \in 1..Len(elemType) |-> k],
              LAMBDA k : IsExported(elemType[k].Name) /\ elemType[k].Tag.name # <<"-">>)

\* gocsv.MarshalWithoutHeaders: one row per element and no header row; a cell
\* is the value of its field
MarshalWithoutHeaders(structs, elemType) ==
    [r \in 1..Len(structs.rows) |->
        [j \in 1..Len(EncodedFields(elemType)) |->
            [field |-> EncodedFields(elemType)[j], key |-> <<>>, value |-> structs.rows[r]]]]

\* json.Marshal: one object per element; the key of a member is the tag name,
\* or the field name as declared when there is none; omitempty leaves out a
\* member whose value is zero
JSONKey(field) == IF field.Tag.name = <<>> THEN field.Name ELSE field.Tag.name
Marshal(structs, elemType) ==
    [r \in 1..Len(structs.rows) |->
        LET members == SelectSeq(EncodedFields(elemType),
                          LAMBDA k : ~("omitempty" \in {elemType[k].Tag.opts[x] :
                                                          x \in DOMAIN elemType[k].Tag.opts}
                                       /\ structs.rows[r] = 0))
        IN [j \in 1..Len(members) |->
              [field |-> members[j], key |-> JSONKey(elemType[members[j]]),
               value |-> structs.rows[r]]]]

\* the fields of the rows of a payload, row by row
RowFields(payload) ==
    {[j \in 1..Len(payload[r]) |-> payload[r][j].field] : r \in DOMAIN payload}

\* what is remembered of the input of a derivation
InputKind(structs) ==
    IF structs.kind # "slice" THEN "not a slice"
    ELSE IF Len(structs.rows) = 0 THEN "empty"
    ELSE IF structs.elem # "struct" THEN "not structs"
    ELSE IF Len(structs.rows) = 1 THEN "one element" ELSE "several elements"
NonEmptyKinds == {"one element", "several elements"}

(* ------------- derivations and encodings alone: SpecColumns ------------- *)
\* The program declares one record type and derives columns and encodes
\* payloads for slices of it, in any order and any number of times.
InitColumns ==
    /\ NewClientWithFEs(Pool(1))
    /\ callers = {Main}
    /\ pc = [p \in AllCallers |-> IF p = Main THEN "idle" ELSE "doRequest"]
    /\ op = [p \in AllCallers |-> ""]
    /\ opsLeft = [p \in AllCallers |-> MaxOps]
    /\ req = [p \in AllCallers |-> NoReq]
    /\ dataBuf = [p \in AllCallers |-> <<>>]
    /\ bodyPos = [p \in AllCallers |-> 0]
    /\ i = [p \in AllCallers |-> 0]
    /\ feIdx = [p \in AllCallers |-> 0]
    /\ lastErr = [p \in AllCallers |-> NoErr]
    /\ tmpIdx = [p \in AllCallers |-> 0]
    /\ attempted = [p \in AllCallers |-> <<>>]
    /\ redirectReq = [p \in AllCallers |-> NoReq]
    /\ nRedirectSent = [p \in AllCallers |-> 0]
    /\ resp = [p \in AllCallers |-> NoResp]
    /\ result = [p \in AllCallers |-> NoResult]
    /\ nextFECount = 0
    /\ args = NoArgs
    /\ recType \in RecordTypes
    /\ derived = {}

\* a call of fn on structs returned out (one of the caller's MaxOps calls);
\* nothing of the client changes
Observe(fn, structs, out) ==
    /\ pc[Main] = "idle"
    /\ opsLeft[Main] > 0
    /\ opsLeft' = [opsLeft EXCEPT ![Main] = opsLeft[Main] - 1]
    /\ derived' = derived \cup {[fn |-> fn, input |-> InputKind(structs), out |-> out]}
    /\ UNCHANGED <<recType, args, fes, defaultHeader, callers, currentFEIndex, muHolder, pc,
                   op, req, dataBuf, bodyPos, i, feIdx, lastErr, tmpIdx, attempted,
                   redirectReq, nRedirectSent, resp, result, nextFECount>>

CallExtractCSVColumns(structs) ==
    Observe("extractCSVColumns", structs, extractCSVColumns(structs, recType))
CallExtractJSONColumns(structs) ==
    Observe("extractJSONColumns", structs, extractJSONColumns(structs, recType))
CallMarshalWithoutHeaders(structs) ==
    Observe("MarshalWithoutHeaders", structs,
            Derivation("", <<>>, RowFields(MarshalWithoutHeaders(structs, recType))))
CallMarshal(structs) ==
    Observe("Marshal", structs, Derivation("", <<>>, RowFields(Marshal(structs, recType))))

NextColumns ==
    \/ \E s \in StructsInputs : CallExtractCSVColumns(s)
    \/ \E s \in StructsInputs : CallExtractJSONColumns(s)
    \/ \E s \in EncoderInputs : CallMarshalWithoutHeaders(s)
    \/ \E s \in EncoderInputs : CallMarshal(s)

SpecColumns == InitColumns /\ [][NextColumns]_vars

(* ---------------------- the struct loaders: SpecStructs ----------------- *)
\* the record types of the programs followed through a whole load: one tagged
\* field; an untagged field and an excluded one
StructTypes ==
    { <<[Name |-> <<"F", 1>>, Tag |-> NamedTag(1)]>>,
      <<[Name |-> <<"F", 1>>, Tag |-> NoTag], [Name |-> <<"F", 2>>, Tag |-> DashTag]>> }
\* the values handed to the loaders: slices of structs, a map, a slice of int
LoaderInputs == {s \in StructsInputs : ~s.ptr}
\* the streams handed to Load and LoadTransaction directly: they fail
BrokenInputs == {<<"r", ReadError>>}
\* a Columns value of the caller's own
CallerColumns == <<<<"x", 1>>>>
\* the caller's options: a format the loaders overwrite, compression unset or
\* set, columns empty or given
StructLoadOptionsSet ==
    [Format : {"csv"}, Compression : {CompressionNone, CompressionGZIP},
     Columns : {NoColumns, CallerColumns}, Label : {""}, StripOuterArray : {FALSE},
     ColumnSeparator : {""}]
\* the answers of the server followed here
StructResponses ==
    {r \in Responses : r.body.valid => "Status" \in DOMAIN r.body.doc}

InitStructs ==
    /\ \E n \in 1..MaxFEs : NewClientWithFEs(Pool(n))
    /\ callers = {Main}
    /\ pc = [p \in AllCallers |-> IF p = Main THEN "idle" ELSE "doRequest"]
    /\ op = [p \in AllCallers |-> ""]
    /\ opsLeft = [p \in AllCallers |-> MaxOps]
    /\ req = [p \in AllCallers |-> NoReq]
    /\ dataBuf = [p \in AllCallers |-> <<>>]
    /\ bodyPos = [p \in AllCallers |-> 0]
    /\ i = [p \in AllCallers |-> 0]
    /\ feIdx = [p \in AllCallers |-> 0]
    /\ lastErr = [p \in AllCallers |-> NoErr]
    /\ tmpIdx = [p \in AllCallers |-> 0]
    /\ attempted = [p \in AllCallers |-> <<>>]
    /\ redirectReq = [p \in AllCallers |-> NoReq]
    /\ nRedirectSent = [p \in AllCallers |-> 0]
    /\ resp = [p \in AllCallers |-> NoResp]
    /\ result = [p \in AllCallers |-> NoResult]
    /\ nextFECount = 0
    /\ args = NoArgs
    /\ recType \in StructTypes
    /\ derived = {}

\* a struct loader returns (nil, "failed to extract columns") before it
\* builds a request
ExtractFailed(p, fn) == ReturnsEarly(p, fn, "extract_columns")

\* gocsv and encoding/json on a value of any kind: gocsv refuses what is not a
\* slice of structs; encoding/json writes a number as it is and a map as an
\* object
IsStructSlice(structs) == structs.kind = "slice" /\ structs.elem = "struct"
MarshalValue(structs, elemType) ==
    IF IsStructSlice(structs) THEN Marshal(structs, elemType)
    ELSE [r \in 1..Len(structs.rows) |->
            <<[field |-> 0, key |-> <<>>, value |-> structs.rows[r]]>>]

\* c.Load(table, payload, opts) as the last statement of a struct loader
LoadPayload(p, table, payload, opts) ==
    pc[p] = "idle" /\ \E h \in Requests(LoadHeaders(opts)) :
        Start(p, "Load",
              [method |-> "PUT",
               url |-> URLOf(currentFEIndex, <<"api", "db", table, "_stream_load">>),
               header |-> h.header, headers |-> h.headers, auth |-> BasicAuth,
               body |-> <<>>],
              compressData(payload, opts.Compression))

LoadStructsCSV(p, table, structs, opts) ==
    LET d == extractCSVColumns(structs, recType)
        derive == opts.Columns = NoColumns
        o == [opts EXCEPT !.Columns = IF derive THEN d.columns ELSE @,
                          !.Format = "csv",
                          !.ColumnSeparator = IF @ = "" THEN "," ELSE @]
    IN /\ pc[p] = "idle"
       /\ args' = [NoArgs EXCEPT !.table = table, !.structs = structs, !.opts = opts,
                                 !.via = "LoadStructsCSV"]
       /\ IF derive /\ d.err # ""
          THEN ExtractFailed(p, "LoadStructsCSV")
          ELSE IF ~IsStructSlice(structs)
          THEN ReturnsEarly(p, "LoadStructsCSV", "marshal_csv")
          ELSE LoadPayload(p, table, MarshalWithoutHeaders(structs, recType), o)

\* LoadStructsJSON that leaves the caller's compression as it is
LoadStructsJSON_NoDefaultCompression(p, table, structs, opts) ==
    LET d == extractJSONColumns(structs, recType)
        derive == opts.Columns = NoColumns
        o == [opts EXCEPT !.Columns = IF derive THEN d.columns ELSE @,
                          !.Format = "json",
                          !.StripOuterArray = TRUE]
    IN /\ pc[p] = "idle"
       /\ args' = [NoArgs EXCEPT !.table = table, !.structs = structs, !.opts = opts,
                                 !.via = "LoadStructsJSON"]
       /\ IF derive /\ d.err # ""
          THEN ExtractFailed(p, "LoadStructsJSON")
          ELSE LoadPayload(p, table, MarshalValue(structs, recType), o)

LoadStructsJSON(p, table, structs, opts) ==
    LET d == extractJSONColumns(structs, recType)
        derive == opts.Columns = NoColumns
        o == [opts EXCEPT !.Columns = IF derive THEN d.columns ELSE @,
                          !.Format = "json",
                          !.Compression = IF @ = CompressionNone THEN CompressionZSTD ELSE @,
                          !.StripOuterArray = TRUE]
    IN /\ pc[p] = "idle"
       /\ args' = [NoArgs EXCEPT !.table = table, !.structs = structs, !.opts = opts,
                                 !.via = "LoadStructsJSON"]
       /\ IF derive /\ d.err # ""
          THEN ExtractFailed(p, "LoadStructsJSON")
          ELSE LoadPayload(p, table, MarshalValue(structs, recType), o)

NextStructs ==
    \/ \E p \in callers, t \in Tables, s \in LoaderInputs, o \in StructLoadOptionsSet :
          LoadStructsCSV(p, t, s, o)
    \/ \E p \in callers, t \in Tables, s \in LoaderInputs, o \in StructLoadOptionsSet :
          LoadStructsJSON(p, t, s, o)
    \/ \E p \in callers, t \in Tables, d \in BrokenInputs, o \in LoadOptionsSet :
          Load(p, t, d, o)
    \/ \E p \in callers, l \in Labels, t \in Tables, d \in BrokenInputs, o \in LoadOptionsSet :
          LoadTransaction(p, l, t, d, o)
    \/ \E p \in callers : doRequestAttempt(p)
    \/ \E p \in callers : doRequestExhausted(p)
    \/ \E p \in callers, n \in ReadLens : httpDoError(p, n)
    \/ \E p \in callers : nextFELock(p)
    \/ \E p \in callers : nextFEStore(p)
    \/ \E p \in callers, r \in StructResponses, n \in ReadLens : httpDoResponse(p, r, n)
    \/ \E p \in callers, r \in StructResponses, n \in ReadLens :
          httpDoRedirectNoLocation(p, r, n)
    \/ \E p \in callers, r \in StructResponses, n \in ReadLens : httpDoRedirect(p, r, n)
    \/ \E p \in callers : redirectError(p)
    \/ \E p \in callers, r \in StructResponses : redirectResponse(p, r)
    \/ \E p \in callers : Return(p)

SpecStructs == InitStructs /\ [][NextStructs]_vars

(* ======================= properties of the client ====================== *)
\* the index the operation of caller p read when it built its URL: the
\* current index at the moment the operation was called
StartIdx(p) == CHOOSE k \in 0..(Len(fes) - 1) : FEURL(k).host = req[p].url.host

\* doRequest of caller p has returned (nil, lastErr): the pool is exhausted
Exhausted(p) == pc[p] = "done" /\ result[p].err.kind = "send"
\* doRequest of caller p has returned a response
Answered(p) == pc[p] \in {"done", "redirecting"} /\ result[p].err.kind # "send"
\* the attempts of caller p went to successive endpoints, starting at StartIdx
InRotationOrder(p) ==
    \A k \in 1..Len(attempted[p]) : attempted[p][k] = (StartIdx(p) + k - 1) % Len(fes)
\* no goroutine other than the observed caller uses the client
SingleCaller == callers = {Main}

\* C1: with a single caller, a doRequest all of whose attempts fail makes
\* exactly N attempts, the i-th to endpoint (s + i) mod N (each endpoint
\* once), and returns the error of the N-th attempt.
C1_ExhaustionInRotationOrder ==
    (SingleCaller /\ Exhausted(Main)) =>
        /\ Len(attempted[Main]) = Len(fes)
        /\ InRotationOrder(Main)
        /\ \A e \in 0..(Len(fes) - 1) :
              Cardinality({k \in 1..Len(attempted[Main]) : attempted[Main][k] = e}) = 1
        /\ result[Main].err.attempt = Len(fes)
        /\ result[Main].err.fe = attempted[Main][Len(fes)]
        /\ result[Main].resp = NilResp

C1_Witness ==
    /\ SingleCaller
    /\ Exhausted(Main)
    /\ Len(fes) >= 2
    /\ StartIdx(Main) # 0

\* C2: when operations run concurrently on the same client and every attempt
\* fails, each operation still attempts every endpoint exactly once.
C2_EachEndpointOnceUnderConcurrency ==
    Exhausted(Main) =>
        \A e \in 0..(Len(fes) - 1) :
            Cardinality({k \in 1..Len(attempted[Main]) : attempted[Main][k] = e}) = 1

\* C3: with a single caller, if the first k endpoints in rotation order fail
\* and endpoint (s + k) mod N answers, the operation uses that response,
\* k + 1 attempts were made, and the index is (s + k) mod N afterwards; a
\* Load answered by 200 / "Success" returns a nil error and the counters.
C3_FailoverThenAnswer ==
    (SingleCaller /\ Answered(Main)) =>
        /\ Len(attempted[Main]) = i[Main] + 1
        /\ InRotationOrder(Main)
        /\ currentFEIndex = (StartIdx(Main) + i[Main]) % Len(fes)
        /\ currentFEIndex = attempted[Main][Len(attempted[Main])]
        /\ (/\ pc[Main] = "done"
            /\ op[Main] = "Load"
            /\ nRedirectSent[Main] = 0
            /\ resp[Main].status = StatusOK
            /\ ~resp[Main].readErr
            /\ resp[Main].body.valid
            /\ Field(resp[Main].body.doc, "Status", "") = "Success")
           => /\ result[Main].err = NoErr
              /\ ~result[Main].resp.isNil
              /\ result[Main].resp.NumberLoadedRows
                    = Field(resp[Main].body.doc, "NumberLoadedRows", 0)

C3_Witness ==
    /\ SingleCaller
    /\ pc[Main] = "done"
    /\ op[Main] = "Load"
    /\ Len(fes) = 2
    /\ attempted[Main] = <<0, 1>>
    /\ currentFEIndex = 1
    /\ result[Main].err = NoErr
    /\ result[Main].resp.NumberLoadedRows = 5

\* C4: an attempt that receives an HTTP response of any status ends
\* doRequest: no further attempt, no advance of the index by this operation;
\* an application-level failure never causes failover.
C4_ResponseEndsDoRequest ==
    [][/\ (resp'[Main] # resp[Main] /\ resp'[Main] # NoResp /\ pc[Main] = "sending")
          => /\ pc'[Main] \in {"done", "redirecting"}
             /\ currentFEIndex' = currentFEIndex
             /\ nextFECount' = nextFECount
             /\ attempted'[Main] = attempted[Main]
       /\ (resp[Main] # NoResp /\ pc'[Main] # "idle")
          => /\ attempted'[Main] = attempted[Main]
             /\ pc'[Main] \in {"done", "redirecting"}
             /\ (pc'[Main] # pc[Main] => currentFEIndex' = currentFEIndex)
      ]_vars

C4_Witness ==
    /\ pc[Main] = "done"
    /\ resp[Main].status = StatusInternalServerError
    /\ result[Main].err.kind = "status"
    /\ Len(fes) = 2
    /\ Len(attempted[Main]) = 1

\* C5: for Load and LoadTransaction the request sent to the Location URL has
\* the full buffered payload as its body, and the method, credentials and
\* headers of the original request, whatever part of the body was read from
\* the first request.
C5_RedirectReplaysFullBody ==
    (pc[Main] = "redirecting" /\ op[Main] \in BodyOps) =>
        /\ redirectReq[Main].body = dataBuf[Main]
        /\ redirectReq[Main].method = req[Main].method
        /\ redirectReq[Main].auth = req[Main].auth
        /\ redirectReq[Main].header = req[Main].header
        /\ redirectReq[Main].url = resp[Main].location

\* C6: every attempt of the failover loop of Load and LoadTransaction offers
\* the complete buffered payload to the transport.
C6_EveryAttemptSendsFullBody ==
    (pc[Main] = "sending" /\ op[Main] \in BodyOps) =>
        retryReq(Main).body = dataBuf[Main]

\* C7: for every operation, a 307 from the pool without a Location header
\* makes the operation return an error, and no further HTTP request (redirect
\* or failover attempt) is issued.
C7_MissingLocationIsFatal ==
    [][(/\ pc[Main] = "sending"
        /\ resp'[Main] # NoResp
        /\ resp'[Main].status = StatusTemporaryRedirect
        /\ resp'[Main].location = NoURL)
       => /\ pc'[Main] = "done"
          /\ result'[Main].err.kind = "no_location"
          /\ result'[Main].resp = NilResp
          /\ nRedirectSent'[Main] = 0
          /\ redirectReq'[Main] = NoReq
          /\ attempted'[Main] = attempted[Main]
      ]_vars

C7_Witness ==
    /\ pc[Main] = "done"
    /\ op[Main] = "PrepareTransaction"
    /\ resp[Main].status = StatusTemporaryRedirect
    /\ resp[Main].location = NoURL
    /\ result[Main].err.kind = "no_location"
    /\ Len(fes) = 2
    /\ Len(attempted[Main]) = 1

\* C8: the redirect request is sent once, to the Location URL, outside the
\* pool: its failure is returned without a retry, without an attempt on
\* another endpoint and without an advance of the index; the operation's
\* redirect leaves the index as it was.
C8_RedirectBypassesPool ==
    [][/\ (pc[Main] = "redirecting" /\ pc'[Main] # pc[Main])
          => /\ pc'[Main] = "done"
             /\ attempted'[Main] = attempted[Main]
             /\ nRedirectSent'[Main] = 1
             /\ redirectReq'[Main] = redirectReq[Main]
             /\ currentFEIndex' = currentFEIndex
             /\ nextFECount' = nextFECount
             /\ \/ result'[Main] = Ret(NilResp, Err("redirect_send"))
                \/ result'[Main] = Decode(op[Main], resp'[Main])
       /\ (pc[Main] = "sending" /\ pc'[Main] = "redirecting")
          => /\ nRedirectSent'[Main] = 1
             /\ redirectReq'[Main].url = resp'[Main].location
             /\ currentFEIndex' = currentFEIndex
       /\ nRedirectSent'[Main] <= 1
      ]_vars

C8_Witness ==
    /\ pc[Main] = "done"
    /\ nRedirectSent[Main] = 1
    /\ result[Main].err.kind = "redirect_send"
    /\ redirectReq[Main].url = WorkerURL
    /\ Len(fes) = 2
    /\ currentFEIndex = 1

\* C9: the index is always within [0, len(fes)) and the pool is non-empty, so
\* the read of fes[currentFEIndex] is never out of range.
C9_IndexInRange ==
    /\ Len(fes) >= 1
    /\ currentFEIndex >= 0
    /\ currentFEIndex < Len(fes)
    /\ \A p \in AllCallers : pc[p] = "sending" => (feIdx[p] + 1) \in DOMAIN fes

C9_Witness ==
    /\ callers = {Main, Others}
    /\ Len(fes) = 2
    /\ currentFEIndex = 0
    /\ nextFECount = 2
    /\ pc[Main] = "sending"

\* C10: nextFE is atomic with respect to other advances and to reads: after k
\* whole advances the index is (s + k) mod N with s = 0 (no lost update), and
\* every read of the current endpoint sees the index as it is between whole
\* advances.
IndexMatchesAdvances ==
    /\ muHolder = NoHolder => currentFEIndex = nextFECount % Len(fes)
    /\ muHolder # NoHolder =>
          /\ tmpIdx[muHolder] = nextFECount % Len(fes)
          /\ currentFEIndex = tmpIdx[muHolder]
    /\ Cardinality({p \in AllCallers : pc[p] = "nextFE_store"}) <= 1

C10_AdvanceIsAtomic ==
    [][/\ IndexMatchesAdvances'
       /\ (pc[Main] = "doRequest" /\ pc'[Main] = "sending")
            => (muHolder = NoHolder /\ feIdx'[Main] = nextFECount % Len(fes))
      ]_vars

C10_Witness ==
    /\ callers = {Main, Others}
    /\ Len(fes) = 2
    /\ pc[Others] = "nextFE_store"
    /\ pc[Main] = "nextFE"
    /\ nextFECount = 1

\* C11: no operation holds the endpoint-index lock while an HTTP request is
\* in flight: the lock is held only between the load and the store of nextFE,
\* so when an operation waits on a pool attempt or on its redirect request,
\* the lock is not held by it and the advance of another operation proceeds.
C11_NoLockAcrossNetworkCall ==
    /\ \A p \in AllCallers : pc[p] \in {"sending", "redirecting"} => muHolder # p
    /\ muHolder # NoHolder => pc[muHolder] = "nextFE_store"
    /\ (pc[Main] \in {"sending", "redirecting"} /\ pc[Others] = "nextFE")
          => ENABLED nextFELock(Others)

C11_Witness ==
    /\ pc[Main] = "redirecting"
    /\ pc[Others] = "nextFE_store"
    /\ muHolder = Others

\* the call of caller p has returned and its effective response (that of the
\* pool, or that of the redirect request when one was sent) was received
Received(p) ==
    /\ pc[p] = "done"
    /\ result[p].err.kind \notin {"send", "no_location", "redirect_send"}
\* ... and its body was read and decoded
Decoded(p) == Received(p) /\ ~resp[p].readErr /\ ~ParseFails(op[p], resp[p].body)
\* the fields of the document the server sent
Sent(p, k, zero) == Field(resp[p].body.doc, k, zero)

\* C12 (as claimed): whenever an operation returns a non-nil error, the
\* response returned with it is non-nil, in every failure outcome.
C12_ErrorAlwaysCarriesResponse ==
    (pc[Main] = "done" /\ result[Main].err # NoErr) => ~result[Main].resp.isNil

\* C12 (amended): an error returned after the body was decoded (HTTP status
\* not 200, or status field not the sentinel) comes with the decoded
\* response; an error of an earlier stage (transport exhaustion, missing
\* Location, redirect transport failure, body read failure, decode failure)
\* comes with a nil response.
C12_ErrorCarriesResponseOnceDecoded ==
    (pc[Main] = "done" /\ result[Main].err # NoErr) =>
        /\ Decoded(Main) => result[Main].resp = Unmarshal(op[Main], resp[Main].body.doc)
        /\ Decoded(Main) <=> result[Main].err.kind \in {"status", "app"}
        /\ ~Decoded(Main) => result[Main].resp = NilResp

C12_Witness ==
    /\ pc[Main] = "done"
    /\ op[Main] = "RollbackTransaction"
    /\ result[Main].err.kind = "status"
    /\ ~result[Main].resp.isNil
    /\ result[Main].resp.Message = "label not found"

\* C13: given that the effective response of Load was received and decodes,
\* Load returns a nil error iff the HTTP status is 200 and the decoded Status
\* is "Success"; otherwise it returns an error with the decoded response,
\* whose Message and counters are those the server sent.
C13_LoadSuccessIffOKAndSuccess ==
    (Decoded(Main) /\ op[Main] = "Load") =>
        /\ result[Main].err = NoErr
              <=> (resp[Main].status = StatusOK /\ Sent(Main, "Status", "") = "Success")
        /\ ~result[Main].resp.isNil
        /\ result[Main].resp.Status = Sent(Main, "Status", "")
        /\ result[Main].resp.Message = Sent(Main, "Message", "")
        /\ result[Main].resp.NumberLoadedRows = Sent(Main, "NumberLoadedRows", 0)

C13_Witness ==
    /\ pc[Main] = "done"
    /\ op[Main] = "Load"
    /\ resp[Main].status = StatusOK
    /\ result[Main].err.kind = "app"
    /\ result[Main].resp.Status = "Fail"
    /\ result[Main].resp.Message = "label not found"
    /\ result[Main].resp.NumberLoadedRows = 3

\* a second reachable case of C13: status field "Success" under HTTP 500
C13_WitnessNot200 ==
    /\ pc[Main] = "done"
    /\ op[Main] = "Load"
    /\ resp[Main].status = StatusInternalServerError
    /\ result[Main].err.kind = "status"
    /\ result[Main].resp.Status = "Success"

\* C14: LoadTransaction validates against its own sentinel: given a received,
\* decodable response it returns a nil error iff the HTTP status is 200 and
\* the decoded Status is "OK"; Status "Success" on HTTP 200 makes it return
\* an error with the decoded response, while Load succeeds on that response.
C14_LoadTransactionSentinelIsOK ==
    /\ (Decoded(Main) /\ op[Main] = "LoadTransaction") =>
          /\ result[Main].err = NoErr
                <=> (resp[Main].status = StatusOK /\ Sent(Main, "Status", "") = "OK")
          /\ (resp[Main].status = StatusOK /\ Sent(Main, "Status", "") = "Success")
                => /\ result[Main].err.kind = "app"
                   /\ result[Main].resp = Unmarshal(op[Main], resp[Main].body.doc)
    /\ (Decoded(Main) /\ op[Main] = "Load"
          /\ resp[Main].status = StatusOK /\ Sent(Main, "Status", "") = "Success")
          => result[Main].err = NoErr
    /\ (Decoded(Main) /\ op[Main] = "Load"
          /\ resp[Main].status = StatusOK /\ Sent(Main, "Status", "") = "OK")
          => result[Main].err.kind = "app"

C14_Witness ==
    /\ pc[Main] = "done"
    /\ op[Main] = "LoadTransaction"
    /\ resp[Main].status = StatusOK
    /\ Sent(Main, "Status", "") = "Success"
    /\ result[Main].err.kind = "app"
    /\ result[Main].resp.NumberLoadedRows = 5

\* the server has answered the PrepareTransaction of caller p with a failure
PrepareRejected(p) ==
    /\ Decoded(p)
    /\ op[p] = "PrepareTransaction"
    /\ ~(resp[p].status = StatusOK /\ Sent(p, "Status", "") = "OK")
\* the pool and the default headers are those of the construction
PoolAndHeadersUntouched == fes = Pool(Len(fes)) /\ defaultHeader = NoHeader

\* C15 (as claimed): PrepareTransaction fails unless the decoded Status is
\* "OK" on HTTP 200; when the server reports a failure it returns an error
\* and a response whose Message is the server's text, and the client's state
\* (endpoint index, pool, default headers) is the same after the call as
\* before it.
C15_PrepareFailureLeavesClientUnchanged ==
    (SingleCaller /\ PrepareRejected(Main)) =>
        /\ result[Main].err # NoErr
        /\ ~result[Main].resp.isNil
        /\ result[Main].resp.Message = Sent(Main, "Message", "")
        /\ PoolAndHeadersUntouched
        /\ currentFEIndex = StartIdx(Main)

\* C15 (amended): as claimed, except for the endpoint index: it has advanced
\* once for every attempt of the call that failed at the transport level
\* before the server answered, and is the same as before the call when the
\* first attempt was answered; the server's reply itself moves nothing.
C15_PrepareFailureMovesIndexOnlyByFailover ==
    /\ (Decoded(Main) /\ op[Main] = "PrepareTransaction") =>
          (result[Main].err = NoErr
             <=> (resp[Main].status = StatusOK /\ Sent(Main, "Status", "") = "OK"))
    /\ PrepareRejected(Main) =>
          /\ result[Main].err.kind \in {"status", "app"}
          /\ ~result[Main].resp.isNil
          /\ result[Main].resp.Message = Sent(Main, "Message", "")
          /\ PoolAndHeadersUntouched
    /\ (SingleCaller /\ PrepareRejected(Main)) =>
          /\ currentFEIndex = (StartIdx(Main) + i[Main]) % Len(fes)
          /\ Len(attempted[Main]) = i[Main] + 1
          /\ Len(attempted[Main]) = 1 => currentFEIndex = StartIdx(Main)

C15_Witness ==
    /\ SingleCaller
    /\ PrepareRejected(Main)
    /\ resp[Main].status = StatusOK
    /\ result[Main].resp.Message = "label not found"
    /\ Len(fes) = 2
    /\ attempted[Main] = <<1>>
    /\ currentFEIndex = 1

\* C16: CommitTransaction checks only the HTTP status: on a received,
\* decodable response with HTTP 200 it returns a nil error and the decoded
\* response whatever the decoded Status ("Fail" and "" included), where
\* PrepareTransaction and Load return an error for a Status that is not their
\* sentinel; with another HTTP status it returns an error with the decoded
\* response.
C16_CommitChecksHTTPStatusOnly ==
    /\ (Decoded(Main) /\ op[Main] = "CommitTransaction") =>
          /\ result[Main].resp = Unmarshal(op[Main], resp[Main].body.doc)
          /\ resp[Main].status = StatusOK => result[Main].err = NoErr
          /\ resp[Main].status # StatusOK => result[Main].err.kind = "status"
    /\ (Decoded(Main) /\ op[Main] \in {"PrepareTransaction", "Load"}
          /\ resp[Main].status = StatusOK
          /\ Sent(Main, "Status", "") \in {"Fail", ""})
          => /\ result[Main].err.kind = "app"
             /\ result[Main].resp = Unmarshal(op[Main], resp[Main].body.doc)

C16_Witness ==
    /\ pc[Main] = "done"
    /\ op[Main] = "CommitTransaction"
    /\ resp[Main].status = StatusOK
    /\ result[Main].resp.Status = "Fail"
    /\ result[Main].err = NoErr

\* a second reachable case of C16: no Status field at all in the document
C16_WitnessEmptyStatus ==
    /\ pc[Main] = "done"
    /\ op[Main] = "CommitTransaction"
    /\ resp[Main].status = StatusOK
    /\ ~resp[Main].readErr
    /\ resp[Main].body.valid
    /\ result[Main].resp.Status = ""
    /\ result[Main].err = NoErr

\* the outcomes a call can have, each a function of the call's own operation,
\* of the last transport error of its own attempts, and of the reply it holds
Outcomes(p) ==
    { Ret(NilResp, [lastErr[p] EXCEPT !.kind = "send"]),
      Ret(NilResp, Err("no_location")),
      Ret(NilResp, Err("redirect_send")),
      Decode(op[p], resp[p]) }

\* C17: the client keeps no per-label transaction state and never rejects a
\* call locally because of the call order: whatever calls were made before,
\* every operation can be called, every call that returns has sent its
\* request to the pool, and its outcome is determined by the call's own
\* operation and the replies it received.
C17_NoLocalOrderCheck ==
    /\ (pc[Main] = "idle" /\ opsLeft[Main] > 0 /\ muHolder = NoHolder) =>
          /\ \A l \in Labels, t \in Tables : ENABLED BeginTransaction(Main, l, t)
          /\ \A l \in Labels : /\ ENABLED PrepareTransaction(Main, l)
                               /\ ENABLED CommitTransaction(Main, l)
                               /\ ENABLED RollbackTransaction(Main, l)
          /\ \A l \in Labels, t \in Tables, d \in Inputs, o \in LoadOptionsSet :
                ENABLED LoadTransaction(Main, l, t, d, o)
    /\ pc[Main] \notin {"idle", "doRequest"} => Len(attempted[Main]) >= 1
    /\ pc[Main] = "done" => result[Main] \in Outcomes(Main)
    /\ pc[Main] = "doRequest" => result[Main] = NoResult

\* a CommitTransaction that is the first call on the client (no Begin before
\* it) went to the server and returned the server's answer
C17_Witness ==
    /\ opsLeft[Main] = MaxOps
    /\ op[Main] = "CommitTransaction"
    /\ pc[Main] = "done"
    /\ Len(attempted[Main]) = 1
    /\ result[Main].err = NoErr
    /\ result[Main].resp.Status = "OK"

\* the endpoints on which an attempt of the current doRequest of caller p
\* has failed at the transport level (i counts the failed attempts)
FailedEndpoints(p) == {attempted[p][k] : k \in 1..i[p]}

\* C18: doRequest returns a transport error only when every endpoint of the
\* pool has failed in that call: an endpoint that would answer is never left
\* untried, also when other operations advance the shared index.
C18_TransportErrorOnlyWhenAllFailed ==
    Exhausted(Main) => FailedEndpoints(Main) = 0..(Len(fes) - 1)

\* C19: for a pool of size 1, doRequest performs exactly one attempt whatever
\* its outcome: a transport failure is returned without a second attempt, and
\* the index is 0 before and after the call.
C19_SingleEndpointSingleAttempt ==
    Len(fes) = 1 =>
        /\ currentFEIndex = 0
        /\ Len(attempted[Main]) <= 1
        /\ pc[Main] \in {"done", "redirecting"} => attempted[Main] = <<0>>
        /\ Exhausted(Main) =>
              /\ i[Main] = 1
              /\ result[Main].err.attempt = 1
              /\ result[Main].err.fe = 0

C19_Witness ==
    /\ Len(fes) = 1
    /\ SingleCaller
    /\ Exhausted(Main)
    /\ nextFECount = 1
    /\ currentFEIndex = 0

\* C20: the round-robin order is deterministic and periodic: every advance
\* moves the index to its successor in list order, wrapping from N-1 to 0, so
\* that the index after k whole advances is 0 exactly when k is a multiple of
\* N: N successive advances visit every endpoint once and lead back.
C20_RoundRobinPeriodic ==
    [][/\ nextFECount' # nextFECount =>
             /\ nextFECount' = nextFECount + 1
             /\ currentFEIndex < Len(fes) - 1 => currentFEIndex' = currentFEIndex + 1
             /\ currentFEIndex = Len(fes) - 1 => currentFEIndex' = 0
       /\ nextFECount' = nextFECount => currentFEIndex' = currentFEIndex
       /\ (currentFEIndex' = 0) <=> (nextFECount' % Len(fes) = 0)
      ]_vars

C20_Witness ==
    /\ Len(fes) = 2
    /\ nextFECount = 2
    /\ currentFEIndex = 0
    /\ muHolder = NoHolder
    /\ Exhausted(Main)
    /\ attempted[Main] = <<0, 1>>

\* C21: the endpoint pool is fixed for the client's lifetime: no step adds,
\* removes or reorders endpoints, and every attempt goes to the endpoint at
\* the current index whatever failed before, so an endpoint that failed is
\* attempted again as soon as the rotation returns to it.
C21_PoolIsFixed ==
    [][/\ fes' = fes
       /\ (pc[Main] = "doRequest" /\ pc'[Main] = "sending")
            => /\ feIdx'[Main] = currentFEIndex
               /\ attempted'[Main] = Append(attempted[Main], currentFEIndex)
      ]_vars

\* both endpoints failed in the first call (two advances); the second call
\* attempts the first endpoint again
C21_Witness ==
    /\ SingleCaller
    /\ fes = Pool(2)
    /\ nextFECount = 2
    /\ opsLeft[Main] = MaxOps - 1
    /\ pc[Main] = "sending"
    /\ attempted[Main] = <<0>>

\* the last path segment of a transaction operation
OpSegment(o) ==
    CASE o = "BeginTransaction" -> "begin"
      [] o = "PrepareTransaction" -> "prepare"
      [] o = "LoadTransaction" -> "load"
      [] o = "CommitTransaction" -> "commit"
      [] o = "RollbackTransaction" -> "rollback"
\* the requests of the call in progress go to the operation's path on the
\* endpoint, and the redirect request has the method of the first request
PathsAndRedirectMethod(p) ==
    /\ pc[p] = "sending" =>
          /\ retryReq(p).url.scheme = "http"
          /\ retryReq(p).url.host = <<fes[feIdx[p] + 1].Host, fes[feIdx[p] + 1].Port>>
          /\ op[p] = "Load" =>
                retryReq(p).url.path = <<"api", "db", args.table, "_stream_load">>
          /\ op[p] # "Load" =>
                retryReq(p).url.path = <<"api", "transaction", OpSegment(op[p])>>
    /\ pc[p] = "redirecting" => redirectReq[p].method = req[p].method

\* C25 (as claimed): bulk load issues PUT to /api/{db}/{table}/_stream_load,
\* each of the five transaction operations issues POST to
\* /api/transaction/{operation}, and the redirect request of each operation
\* uses the method of its first request.
C25_TransactionOperationsUsePOST ==
    /\ PathsAndRedirectMethod(Main)
    /\ pc[Main] = "sending" =>
          retryReq(Main).method = IF op[Main] = "Load" THEN "PUT" ELSE "POST"

\* C25 (amended): as claimed, except that LoadTransaction issues PUT, like
\* bulk load; begin, prepare, commit and rollback issue POST.
C25_LoadTransactionUsesPUT ==
    /\ PathsAndRedirectMethod(Main)
    /\ pc[Main] = "sending" =>
          retryReq(Main).method = IF op[Main] \in BodyOps THEN "PUT" ELSE "POST"
    /\ pc[Main] = "redirecting" =>
          redirectReq[Main].method = IF op[Main] \in BodyOps THEN "PUT" ELSE "POST"

C25_Witness ==
    /\ pc[Main] = "redirecting"
    /\ op[Main] = "LoadTransaction"
    /\ req[Main].method = "PUT"
    /\ req[Main].url.path = <<"api", "transaction", "load">>
    /\ redirectReq[Main].method = "PUT"

\* caller p holds the effective response of its call: the answer of the pool
\* unless it is a 307, else the answer to the redirect request
HoldsEffectiveResponse(p) ==
    /\ pc[p] # "idle"
    /\ resp[p] # NoResp
    /\ \/ resp[p].status # StatusTemporaryRedirect
       \/ /\ pc[p] = "done"
          /\ nRedirectSent[p] = 1
          /\ result[p].err.kind # "redirect_send"

\* C30: if the body of the effective response cannot be decoded, the
\* operation returns a nil response and an error, for every HTTP status; the
\* failure ends the call: no failover attempt, no retry, no advance of the
\* index follows it.
C30_DecodeFailureIsFatal ==
    (HoldsEffectiveResponse(Main) /\ ~resp[Main].readErr /\ ~resp[Main].body.valid) =>
        /\ pc[Main] = "done"
        /\ result[Main] = Ret(NilResp, Err("parse"))
        /\ Len(attempted[Main]) = i[Main] + 1
        /\ nRedirectSent[Main] <= 1
        /\ SingleCaller => currentFEIndex = attempted[Main][Len(attempted[Main])]

C30_Witness ==
    /\ SingleCaller
    /\ Len(fes) = 2
    /\ pc[Main] = "done"
    /\ resp[Main].status = StatusOK
    /\ ~resp[Main].readErr
    /\ ~resp[Main].body.valid
    /\ result[Main].err.kind = "parse"
    /\ attempted[Main] = <<0>>
    /\ currentFEIndex = 0

(* --------------------- claims checked under SpecAPI --------------------- *)
\* C22: constructing a client with an empty endpoint list panics and yields no
\* client, so no operation and no request is ever issued on an empty pool; a
\* client that exists has a non-empty pool, and its index is 0 until the first
\* advance.
C22_EmptyPoolPanicsAtConstruction ==
    /\ pc[Main] = "panicked" =>
          /\ fes = <<>>
          /\ op[Main] = ""
          /\ attempted[Main] = <<>>
          /\ nRedirectSent[Main] = 0
    /\ pc[Main] \notin {"new", "panicked"} => Len(fes) >= 1
    /\ (pc[Main] = "idle" /\ opsLeft[Main] = MaxOps) => currentFEIndex = 0
    /\ Len(fes) = 0 => pc[Main] \in {"new", "panicked"}

\* the constructor was called with the empty list
C22_Witness ==
    /\ pc[Main] = "panicked"
    /\ fes = <<>>

\* the header map h carries every default header of the client
CarriesDefaults(h) ==
    \A k \in DOMAIN defaultHeader :
        /\ CanonicalMIMEHeaderKey(k) \in DOMAIN h
        /\ h[CanonicalMIMEHeaderKey(k)] = defaultHeader[k]

\* C23: a header set with SetDefaultHeader is sent on all requests issued
\* afterwards: every pool attempt and every redirect request of the six
\* operations carries it.
C23_DefaultHeaderOnAllRequests ==
    /\ pc[Main] = "sending" => CarriesDefaults(retryReq(Main).header)
    /\ pc[Main] = "redirecting" => CarriesDefaults(redirectReq[Main].header)

\* C24: for Load with a compression other than none, the request carries a
\* compression header of that value and its body (here of the first attempt,
\* before anything was read) is the compressed form of the input, not the raw
\* input; for every non-none value.
C24_CompressionHeaderMeansCompressedBody ==
    (/\ op[Main] = "Load"
     /\ pc[Main] = "sending"
     /\ Len(attempted[Main]) = 1
     /\ args.opts.Compression # CompressionNone)
        => /\ "Compression" \in DOMAIN retryReq(Main).header
           /\ retryReq(Main).header["Compression"] = args.opts.Compression
           /\ retryReq(Main).body # args.data

\* C26: a transaction response body whose TxnId is a JSON string decodes
\* without error into a response with the TxnId and Status of the body, so the
\* operation does not return a parse error on HTTP 200 with such a body.
C26_StringTxnIdDecodes ==
    (/\ Received(Main)
     /\ op[Main] \in ControlOps
     /\ resp[Main].status = StatusOK
     /\ ~resp[Main].readErr
     /\ resp[Main].body.valid
     /\ "TxnId" \in DOMAIN resp[Main].body.doc
     /\ resp[Main].body.doc["TxnId"].kind = "string")
        => /\ result[Main].err.kind # "parse"
           /\ result[Main].resp.TxnId = resp[Main].body.doc["TxnId"].text
           /\ result[Main].resp.Status = resp[Main].body.doc["Status"]

(* -------------------- claims checked under SpecColumns ------------------ *)
\* the field a column names: names and tag names carry the field's position
FieldOfColumn(column) == column[2]
\* the columns of derivation d name the fields of each row of encoding e, in
\* the order of the row
ColumnsMatchRows(d, e) ==
    \A row \in e.out.rows :
        /\ Len(row) = Len(d.out.columns)
        /\ \A j \in 1..Len(row) : FieldOfColumn(d.out.columns[j]) = row[j]

\* C27: for every record type, the ordered column list of the extractor names
\* exactly the fields the payload encoder emits, in the same order: the i-th
\* column is the i-th field of each encoded row or document, and excluded
\* fields are absent from both.
C27_ColumnsMatchEncodedFields ==
    \A d \in derived, e \in derived :
        (/\ d.out.err = ""
         /\ d.input \in NonEmptyKinds
         /\ \/ d.fn = "extractCSVColumns" /\ e.fn = "MarshalWithoutHeaders"
            \/ d.fn = "extractJSONColumns" /\ e.fn = "Marshal")
            => ColumnsMatchRows(d, e)

C29_LoadStructsJSONOptions ==
    (args.via = "LoadStructsJSON" /\ pc[Main] = "sending") =>
        LET h == retryReq(Main).header IN
        /\ Field(h, "Format", "") = "json"
        /\ Field(h, "Strip_outer_array", "") = "true"
        /\ Field(h, "Compression", "") = IF args.opts.Compression = CompressionNone
                              THEN CompressionZSTD
                              ELSE args.opts.Compression
        /\ Field(h, "Columns", NoColumns) = IF args.opts.Columns = NoColumns
                          THEN extractJSONColumns(args.structs, recType).columns
                          ELSE args.opts.Columns

\* a call with format csv, no compression and no columns is being sent with
\* the derived column of the untagged field
C29_Witness ==
    /\ args.via = "LoadStructsJSON"
    /\ pc[Main] = "sending"
    /\ args.opts.Format = "csv"
    /\ args.opts.Compression = CompressionNone
    /\ args.opts.Columns = NoColumns
    /\ retryReq(Main).header["Columns"] = <<<<"f", 1>>>>
    /\ retryReq(Main).header["Compression"] = CompressionZSTD

(* ----------------------------- claims C31..C37 -------------------------- *)
\* the response the operation holds answers its redirect request
RedirectAnswered(p) ==
    /\ pc[p] = "done"
    /\ nRedirectSent[p] = 1
    /\ result[p].err.kind # "redirect_send"

\* C31: an operation follows at most one redirect and issues at most N + 1
\* requests (at most N pool attempts and at most one redirect request); a 307
\* in answer to the redirect request is not followed but is the effective
\* response, so the operation ends with an error.
C31_AtMostOneRedirect ==
    /\ nRedirectSent[Main] <= 1
    /\ Len(attempted[Main]) <= Len(fes)
    /\ Len(attempted[Main]) + nRedirectSent[Main] <= Len(fes) + 1
    /\ (RedirectAnswered(Main) /\ resp[Main].status = StatusTemporaryRedirect) =>
          /\ result[Main].set
          /\ result[Main].err.kind \in {"status", "parse", "read_body"}

\* the redirect request of an operation on a pool of two, sent after one
\* failed attempt, was answered with a 307 that names a Location
C31_Witness ==
    /\ RedirectAnswered(Main)
    /\ Len(fes) = 2
    /\ Len(attempted[Main]) = 2
    /\ resp[Main].status = StatusTemporaryRedirect
    /\ resp[Main].location # NoURL
    /\ result[Main].err.kind = "parse"

\* C32: BeginTransaction and RollbackTransaction decide on the HTTP status
\* alone: once the effective response is received and decoded, the error is
\* nil exactly when the status is 200, whatever the decoded Status field, and
\* with another status the error comes with the decoded response.
C32_BeginRollbackCheckHTTPStatusOnly ==
    (Decoded(Main) /\ op[Main] \in {"BeginTransaction", "RollbackTransaction"}) =>
        /\ result[Main].err = NoErr <=> resp[Main].status = StatusOK
        /\ resp[Main].status # StatusOK =>
              /\ result[Main].err.kind = "status"
              /\ ~result[Main].resp.isNil
        /\ result[Main].resp = Unmarshal(op[Main], resp[Main].body.doc)

\* RollbackTransaction returned without error on HTTP 200 with Status "Fail"
C32_Witness ==
    /\ Decoded(Main)
    /\ op[Main] = "RollbackTransaction"
    /\ resp[Main].status = StatusOK
    /\ result[Main].resp.Status = "Fail"
    /\ result[Main].err = NoErr

\* C33: with a single caller, a doRequest call that made a attempts of which
\* f failed leaves the index at (s + f) mod N, s the index at its start; f is
\* a - 1 when a response came and N when all attempts failed, so that a
\* failed call leaves the index where it was.
C33_IndexAfterCall ==
    (SingleCaller /\ pc[Main] \in {"done", "redirecting"} /\ Len(attempted[Main]) > 0) =>
        /\ currentFEIndex = (StartIdx(Main) + i[Main]) % Len(fes)
        /\ Exhausted(Main) =>
              /\ i[Main] = Len(fes)
              /\ Len(attempted[Main]) = Len(fes)
              /\ currentFEIndex = StartIdx(Main)
        /\ Answered(Main) => i[Main] = Len(attempted[Main]) - 1

\* a call that started at the second endpoint of two failed on both and left
\* the index at the second endpoint
C33_Witness ==
    /\ SingleCaller
    /\ Exhausted(Main)
    /\ Len(fes) = 2
    /\ StartIdx(Main) = 1
    /\ attempted[Main] = <<1, 0>>
    /\ currentFEIndex = 1

(* ------------------ termination under fair scheduling ------------------ *)
\* A further specification follows the operations of one goroutine next to
\* the index advances of the others, under fairness, with one representative
\* of every kind of answer.
FairOps == 1
\* the stream loaded is empty: how much of a body was read plays no part here
FairInputs == {<<>>}
FairLoadOptions == {o \in LoadOptionsSet : o.Compression = CompressionNone}
FairResponses ==
    {r \in Responses : r.body.valid => r.body.doc = [Status |-> "Success", NumberLoadedRows |-> 5]}

InitFair ==
    /\ \E n \in 1..MaxFEs : NewClientWithFEs(Pool(n))
    /\ callers = {Main, Others}
    /\ pc = [p \in AllCallers |-> IF p = Main THEN "idle" ELSE "doRequest"]
    /\ op = [p \in AllCallers |-> ""]
    /\ opsLeft = [p \in AllCallers |-> FairOps]
    /\ req = [p \in AllCallers |-> NoReq]
    /\ dataBuf = [p \in AllCallers |-> <<>>]
    /\ bodyPos = [p \in AllCallers |-> 0]
    /\ i = [p \in AllCallers |-> 0]
    /\ feIdx = [p \in AllCallers |-> 0]
    /\ lastErr = [p \in AllCallers |-> NoErr]
    /\ tmpIdx = [p \in AllCallers |-> 0]
    /\ attempted = [p \in AllCallers |-> <<>>]
    /\ redirectReq = [p \in AllCallers |-> NoReq]
    /\ nRedirectSent = [p \in AllCallers |-> 0]
    /\ resp = [p \in AllCallers |-> NoResp]
    /\ result = [p \in AllCallers |-> NoResult]
    /\ nextFECount = 0
    /\ args = NoArgs
    /\ recType = <<>>
    /\ derived = {}

\* an HTTP call in flight returns, with a response or with an error
httpDoReturns(p) ==
    \/ \E n \in ReadLens : httpDoError(p, n)
    \/ \E r \in FairResponses, n \in ReadLens : httpDoResponse(p, r, n)
    \/ \E r \in FairResponses, n \in ReadLens : httpDoRedirectNoLocation(p, r, n)
    \/ \E r \in FairResponses, n \in ReadLens : httpDoRedirect(p, r, n)
    \/ redirectError(p)
    \/ \E r \in FairResponses : redirectResponse(p, r)

\* the steps of a goroutine that take no lock: the loop exit and the store and
\* Unlock of nextFE
runs(p) == doRequestExhausted(p) \/ nextFEStore(p)

NextFair ==
    \/ \E p \in AllCallers, t \in Tables, d \in FairInputs, o \in FairLoadOptions : Load(p, t, d, o)
    \/ \E p \in AllCallers, l \in Labels, t \in Tables, d \in FairInputs, o \in FairLoadOptions :
          LoadTransaction(p, l, t, d, o)
    \/ \E p \in AllCallers, l \in Labels, t \in Tables : BeginTransaction(p, l, t)
    \/ \E p \in AllCallers, l \in Labels : PrepareTransaction(p, l)
    \/ \E p \in AllCallers, l \in Labels : CommitTransaction(p, l)
    \/ \E p \in AllCallers, l \in Labels : RollbackTransaction(p, l)
    \/ \E p \in AllCallers : otherAttemptFailed(p)
    \/ \E p \in AllCallers : doRequestAttempt(p)
    \/ \E p \in AllCallers : doRequestExhausted(p)
    \/ \E p \in AllCallers, n \in ReadLens : httpDoError(p, n)
    \/ \E p \in AllCallers : nextFELock(p)
    \/ \E p \in AllCallers : nextFEStore(p)
    \/ \E p \in AllCallers, r \in FairResponses, n \in ReadLens : httpDoResponse(p, r, n)
    \/ \E p \in AllCallers, r \in FairResponses, n \in ReadLens :
          httpDoRedirectNoLocation(p, r, n)
    \/ \E p \in AllCallers, r \in FairResponses, n \in ReadLens : httpDoRedirect(p, r, n)
    \/ \E p \in AllCallers : redirectError(p)
    \/ \E p \in AllCallers, r \in FairResponses : redirectResponse(p, r)
    \/ \E p \in AllCallers : Return(p)

\* Every HTTP call returns and a runnable goroutine is scheduled (weak
\* fairness); a goroutine that asks for c.mu again and again gets it (strong
\* fairness: a sync.RWMutex hands the lock to a waiter that is being starved).
Fairness ==
    /\ WF_vars(httpDoReturns(Main))
    /\ \A p \in AllCallers : WF_vars(runs(p))
    /\ SF_vars(doRequestAttempt(Main))
    /\ \A p \in AllCallers : SF_vars(nextFELock(p))

SpecFair == InitFair /\ [][NextFair]_vars /\ Fairness

Running(p) == pc[p] \notin {"idle", "done"}
Returned(p) ==
    /\ pc[p] = "done"
    /\ result[p].set
    /\ ~result[p].resp.isNil \/ result[p].err # NoErr

\* C34: under fair scheduling, and provided every HTTP call returns, an
\* operation that was started eventually returns a response or an error,
\* wherever it stands: in the failover loop, waiting for the index lock in
\* nextFE, or in the redirect step.
C34_OperationsTerminate == Running(Main) ~> Returned(Main)

\* an operation returned after all attempts on a pool of two failed while
\* another goroutine advanced the index
C34_Witness ==
    /\ Returned(Main)
    /\ callers = {Main, Others}
    /\ Len(fes) = 2
    /\ Len(attempted[Main]) = 2
    /\ i[Others] = 1
    /\ result[Main].err.kind = "send"

\* the call just made fails before dispatch in one of the ways named: the
\* stream of Load or LoadTransaction cannot be read or compressed, or a struct
\* loader must derive the columns and is handed an empty slice, a value that
\* is not a slice, or a slice of values that are not structs
FailsBeforeDispatch(a) ==
    \/ a.via = "" /\ ReadFails(a.data)
    \/ /\ a.via \in {"LoadStructsCSV", "LoadStructsJSON"}
       /\ a.opts.Columns = NoColumns
       /\ InputKind(a.structs) \in {"not a slice", "empty", "not structs"}

\* C35: a call that fails before dispatch returns a nil response and an error
\* in the step of the call itself: no request is built, no attempt and no
\* redirect is made, and the endpoint index and the lock are left as they were.
C35_EarlyFailureSendsNothing ==
    [][(pc[Main] = "idle" /\ pc'[Main] # "idle" /\ FailsBeforeDispatch(args')) =>
          /\ pc'[Main] = "done"
          /\ result'[Main].set
          /\ result'[Main].resp.isNil
          /\ result'[Main].err.kind \in {"buffer_data", "compress_data",
                                         "buffer_compressed_data", "extract_columns"}
          /\ req'[Main] = NoReq
          /\ attempted'[Main] = <<>>
          /\ nRedirectSent'[Main] = 0
          /\ currentFEIndex' = currentFEIndex
          /\ nextFECount' = nextFECount
          /\ muHolder' = muHolder]_vars

\* LoadStructsJSON was handed a map on a client whose index an earlier
\* operation had advanced, and returned the extraction error
C35_Witness ==
    /\ pc[Main] = "done"
    /\ args.via = "LoadStructsJSON"
    /\ args.structs.kind = "map"
    /\ result[Main] = Ret(NilResp, Err("extract_columns"))
    /\ Len(fes) = 2
    /\ currentFEIndex = 1
    /\ attempted[Main] = <<>>

\* C36: the request of every pool attempt has the scheme and host of the
\* endpoint that is current when the attempt starts and the path of the
\* template; the endpoint the operation read when it built the template does
\* not decide the target, also when the index moved in between.
C36_AttemptGoesToCurrentEndpoint ==
    [][(pc[Main] = "doRequest" /\ pc'[Main] = "sending") =>
          /\ retryReq(Main)'.url.scheme = FEURL(currentFEIndex).scheme
          /\ retryReq(Main)'.url.host = FEURL(currentFEIndex).host
          /\ retryReq(Main)'.url.path = req[Main].url.path
          /\ retryReq(Main)'.method = req[Main].method
          /\ retryReq(Main)'.header = req[Main].header
          /\ req'[Main] = req[Main]]_vars

\* another goroutine advanced the index after the operation built its URL and
\* before its first attempt: the first request goes to the second endpoint
C36_Witness ==
    /\ callers = {Main, Others}
    /\ pc[Main] = "sending"
    /\ Len(fes) = 2
    /\ attempted[Main] = <<1>>
    /\ StartIdx(Main) = 0
    /\ retryReq(Main).url.host # req[Main].url.host

(* ------------- default headers named like protocol headers ------------- *)
\* A further specification follows one caller who registers default headers
\* under the names of protocol headers, spelled as the operations spell them
\* or in another case, and loads with and without a label of its own.
ProtocolNamedKeys == {"Expect", "expect", "label"}
LabelledLoadOptions ==
    [Format : {"csv"}, Compression : {CompressionNone}, Columns : {NoColumns},
     Label : {"", "own"}, StripOuterArray : {FALSE}, ColumnSeparator : {""}]

InitHeaders ==
    /\ \E n \in 1..MaxFEs : NewClientWithFEs(Pool(n))
    /\ callers = {Main}
    /\ pc = [p \in AllCallers |-> IF p = Main THEN "idle" ELSE "doRequest"]
    /\ op = [p \in AllCallers |-> ""]
    /\ opsLeft = [p \in AllCallers |-> MaxOps]
    /\ req = [p \in AllCallers |-> NoReq]
    /\ dataBuf = [p \in AllCallers |-> <<>>]
    /\ bodyPos = [p \in AllCallers |-> 0]
    /\ i = [p \in AllCallers |-> 0]
    /\ feIdx = [p \in AllCallers |-> 0]
    /\ lastErr = [p \in AllCallers |-> NoErr]
    /\ tmpIdx = [p \in AllCallers |-> 0]
    /\ attempted = [p \in AllCallers |-> <<>>]
    /\ redirectReq = [p \in AllCallers |-> NoReq]
    /\ nRedirectSent = [p \in AllCallers |-> 0]
    /\ resp = [p \in AllCallers |-> NoResp]
    /\ result = [p \in AllCallers |-> NoResult]
    /\ nextFECount = 0
    /\ args = NoArgs
    /\ recType = <<>>
    /\ derived = {}

NextHeaders ==
    \/ \E p \in callers, k \in ProtocolNamedKeys, v \in DefaultHeaderValues :
          SetDefaultHeader(p, k, v)
    \/ \E p \in callers, t \in Tables, d \in Inputs, o \in LabelledLoadOptions : Load(p, t, d, o)
    \/ \E p \in callers, l \in Labels, t \in Tables, d \in Inputs, o \in LabelledLoadOptions :
          LoadTransaction(p, l, t, d, o)
    \/ \E p \in callers : doRequestAttempt(p)
    \/ \E p \in callers : doRequestExhausted(p)
    \/ \E p \in callers, n \in ReadLens : httpDoError(p, n)
    \/ \E p \in callers : nextFELock(p)
    \/ \E p \in callers : nextFEStore(p)
    \/ \E p \in callers, r \in FairResponses, n \in ReadLens : httpDoResponse(p, r, n)
    \/ \E p \in callers, r \in FairResponses, n \in ReadLens :
          httpDoRedirectNoLocation(p, r, n)
    \/ \E p \in callers, r \in FairResponses, n \in ReadLens : httpDoRedirect(p, r, n)
    \/ \E p \in callers : redirectError(p)
    \/ \E p \in callers, r \in FairResponses : redirectResponse(p, r)
    \/ \E p \in callers : Return(p)

SpecHeaders == InitHeaders /\ [][NextHeaders]_vars

\* the header h carries the values Load or LoadTransaction sets itself for the
\* call in progress
CarriesProtocolValues(h) ==
    /\ Field(h, "Expect", "") = "100-continue"
    /\ Field(h, "Strip_outer_array", "") = BoolStr(args.opts.StripOuterArray)
    /\ args.opts.Format # "" => Field(h, "Format", "") = args.opts.Format
    /\ op[Main] = "Load" /\ args.opts.Label # "" => Field(h, "Label", "") = args.opts.Label
    /\ op[Main] = "LoadTransaction" =>
          /\ Field(h, "Label", "") = args.label
          /\ Field(h, "Db", "") = "db"
          /\ Field(h, "Table", "") = args.table

\* C37: in Load and LoadTransaction no default header replaces a protocol
\* header: the request of every pool attempt and the redirect request carry
\* the operation's own value for every header the operation sets, whatever
\* was registered with SetDefaultHeader; the label of LoadTransaction is the
\* label argument, never opts.Label.
C37_ProtocolHeadersWin ==
    /\ (pc[Main] = "sending" /\ op[Main] \in BodyOps) =>
          CarriesProtocolValues(retryReq(Main).header)
    /\ (pc[Main] = "redirecting" /\ op[Main] \in BodyOps) =>
          CarriesProtocolValues(redirectReq[Main].header)

====
